---- MODULE Spec2Model ----
(***************************************************************************)
(* Model of mchart: the domain model (models.py), chart-name resolution    *)
(* and get_latest of the Billboard provider (providers/billboard.py), the  *)
(* Billboard spider's page scan (spiders/billboard.py) and the assembly    *)
(* pipeline (pipelines.py).                                                *)
(*                                                                         *)
(* Text is a sequence of one-character strings, so that lower(), strip(),  *)
(* replace(), isdigit() and int() are computed character by character.     *)
(***************************************************************************)
EXTENDS Integers, Sequences, FiniteSets, TLC

VARIABLES
    pc,          \* position of the running operation
    config,      \* self.config of the provider / constructor arguments of the spider
    chart_name,  \* the chart_name argument
    page,        \* the page the server answers with
    warnings,    \* warnings.warn calls, in order
    requests,    \* URLs requested from the server, in order
    result,      \* value returned, or error raised, by the operation
    entry_args,  \* keyword arguments of a ChartEntry(...) construction
    artist_text, \* the artist string handed to _split_artists
    downloading, \* the Request in the downloader, with its meta
    answered,    \* the status of the last Response the server gave
    slept,       \* the waits of a fetch, in order: the time.sleep(delay)
                 \* calls of the middleware; for the provider's session
                 \* the wait before each retry, 0 where none is slept
    caller,      \* per run_spider call: where the calling thread stands
    worker,      \* per run_spider call: the spawned process
    queues       \* the multiprocessing queues created so far

retry_vars == <<downloading, answered, slept>>
runner_vars == <<caller, worker, queues>>
vars == <<pc, config, chart_name, page, warnings, requests, result, entry_args,
          artist_text, retry_vars, runner_vars>>

\* Python's None where a model instance may stand.
None == [model |-> "None"]
NoResult == [status |-> "none"]
\* max_chart_entries is a number; 0 stands for None (both are falsy and the
\* code only ever tests the option's truth value before using it).
NoConfig == [include_images |-> TRUE, max_chart_entries |-> 0,
             fallback_to_default |-> TRUE]
NoPage == [http |-> "none", rows |-> <<>>, texts |-> <<>>]
NoArgs == [song |-> None, album |-> None, rank |-> 0, weeks_on_chart |-> 0,
           last_week |-> 0, peak_position |-> 0]

\* No request is in the downloader and no run_spider call is under way.
NoDownload ==
    downloading = [url |-> <<>>, retry_times |-> 0] /\ answered = 0 /\ slept = <<>>
NoRunSpider == caller = <<>> /\ worker = <<>> /\ queues = <<>>

(***************************************************************************)
(* Bounds of the model.                                                    *)
(***************************************************************************)
MaxRank == 3
MaxCount == 1
\* rows on a page
MaxRows == 3
\* largest max_chart_entries option
MaxEntries == 2

(***************************************************************************)
(* models.py                                                               *)
(***************************************************************************)

\* Song(title=..., artist=..., artists=..., image=..., album="")
Song(title, artist, artists, image) ==
    [model |-> "Song", title |-> title, artist |-> artist, artists |-> artists,
     image |-> image, album |-> <<>>]

\* Album(title=..., artist=..., artists=..., image=...)
Album(title, artist, artists, image) ==
    [model |-> "Album", title |-> title, artist |-> artist, artists |-> artists,
     image |-> image]

\* Truth value of an Optional[BaseModel] field: None is false, a model
\* instance is always true (BaseModel defines neither __bool__ nor __len__).
Truthy(x) == x # None

\* A buggy validator: the "both" case is not rejected.
validate_song_or_album_no_both(e) ==
    IF ~Truthy(e.song) /\ ~Truthy(e.album)
    THEN [status |-> "ValidationError",
          error |-> "ChartEntry must have either 'song' or 'album' field"]
    ELSE [status |-> "ok", value |-> e]

\* ChartEntry.validate_song_or_album (mode='after')
validate_song_or_album(e) ==
    IF ~Truthy(e.song) /\ ~Truthy(e.album)
    THEN [status |-> "ValidationError",
          error |-> "ChartEntry must have either 'song' or 'album' field"]
    ELSE IF Truthy(e.song) /\ Truthy(e.album)
    THEN [status |-> "ValidationError",
          error |-> "ChartEntry cannot have both 'song' and 'album' fields"]
    ELSE [status |-> "ok", value |-> e]

\* ChartEntry(song=..., album=..., rank=..., weeks_on_chart=..., ...):
\* the fields with their defaults, then the model validator.
ChartEntry(args) ==
    validate_song_or_album(
        [song |-> args.song, album |-> args.album, rank |-> args.rank,
         weeks_on_chart |-> args.weeks_on_chart, last_week |-> args.last_week,
         peak_position |-> args.peak_position])

\* Literal["single", "album"]
ChartTypes == {"single", "album"}

\* The failure of a field typed Literal["single", "album"]
LiteralError ==
    [status |-> "ValidationError", error |-> "Input should be 'single' or 'album'"]

\* ChartMetadata(provider, title, description, url, type="single"): the
\* type is validated against the literal
ChartMetadata(provider, title, description, url, type) ==
    IF type \notin ChartTypes THEN LiteralError
    ELSE [status |-> "ok",
          value |-> [provider |-> provider, title |-> title,
                     description |-> description, url |-> url, type |-> type]]

\* Chart(metadata, published_date, entries, chart_type="single"): the
\* chart_type is validated against the literal; it is not compared with
\* metadata.type
Chart(metadata, published_date, entries, chart_type) ==
    IF chart_type \notin ChartTypes THEN LiteralError
    ELSE [status |-> "ok",
          value |-> [metadata |-> metadata, published_date |-> published_date,
                     entries |-> entries, chart_type |-> chart_type]]

(***************************************************************************)
(* Constructing chart entries (models.py)                                  *)
(***************************************************************************)
SampleSongs ==
    { Song(<<"S", "1">>, <<"A">>, <<<<"A">>>>, <<>>),
      Song(<<"S", "2">>, <<"B">>, <<<<"B">>, <<"C">>>>, <<>>) }

SampleAlbums ==
    { Album(<<"L", "1">>, <<"A">>, <<<<"A">>>>, <<>>),
      Album(<<"L", "2">>, <<"B">>, <<<<"B">>>>, <<>>) }

EntryArgs ==
    [song : {None} \cup SampleSongs, album : {None} \cup SampleAlbums,
     rank : 0..MaxRank, weeks_on_chart : 0..MaxCount, last_week : 0..MaxCount,
     peak_position : 0..MaxCount]

InitEntry ==
    /\ pc = "construct"
    /\ entry_args \in EntryArgs
    /\ artist_text = <<>>
    /\ NoDownload
    /\ NoRunSpider
    /\ result = NoResult
    /\ config = NoConfig
    /\ chart_name = <<>>
    /\ page = NoPage
    /\ warnings = <<>>
    /\ requests = <<>>

\* ChartEntry(**entry_args)
ConstructEntry ==
    /\ pc = "construct"
    /\ result' = ChartEntry(entry_args)
    /\ pc' = "done"
    /\ UNCHANGED <<config, chart_name, page, warnings, requests, entry_args,
                 artist_text, retry_vars, runner_vars>>

NextEntry == ConstructEntry

SpecEntry == InitEntry /\ [][NextEntry]_vars

\* C1: constructing a ChartEntry succeeds if and only if exactly one of
\* song/album is set, and every entry that exists has song XOR album.
C1_EntryXor ==
    pc = "done" =>
        /\ (result.status = "ok") <=>
               ((entry_args.song # None) # (entry_args.album # None))
        /\ result.status \in {"ok", "ValidationError"}
        /\ result.status = "ok" =>
               /\ (result.value.song # None) # (result.value.album # None)
               /\ result.value.song = entry_args.song
               /\ result.value.album = entry_args.album

\* C1 witness: a construction with both a song and an album was rejected.
C1_Witness ==
    /\ pc = "done"
    /\ entry_args.song # None
    /\ entry_args.album # None
    /\ result.status = "ValidationError"

(***************************************************************************)
(* Text: str.lower, str.strip, str.replace                                 *)
(***************************************************************************)
\* Characters outside ASCII are written by name ("U+00C9").  Besides ASCII
\* the texts of the model hold the characters named in this section: every
\* whitespace character, and of the letters and digits outside ASCII those
\* that str.lower, str.upper, str.isupper, str.isdigit, int and the classes
\* \s, \d and \w treat in a way of their own.

\* The characters str.lower() turns into one other character: A-Z, E acute,
\* the Kelvin sign, Cyrillic A
LowerMap ==
    "A" :> "a" @@ "B" :> "b" @@ "C" :> "c" @@ "D" :> "d" @@ "E" :> "e" @@
    "F" :> "f" @@ "G" :> "g" @@ "H" :> "h" @@ "I" :> "i" @@ "J" :> "j" @@
    "K" :> "k" @@ "L" :> "l" @@ "M" :> "m" @@ "N" :> "n" @@ "O" :> "o" @@
    "P" :> "p" @@ "Q" :> "q" @@ "R" :> "r" @@ "S" :> "s" @@ "T" :> "t" @@
    "U" :> "u" @@ "V" :> "v" @@ "W" :> "w" @@ "X" :> "x" @@ "Y" :> "y" @@
    "Z" :> "z" @@
    "U+00C9" :> "U+00E9" @@ "U+212A" :> "k" @@ "U+0410" :> "U+0430"

\* The characters str.lower() turns into two: I with dot above
LowerPairs == "U+0130" :> <<"i", "U+0307">>

\* str.isspace() and \s: the whitespace of ASCII and of Unicode
Whitespace ==
    {" ", "\t", "\n", "\r", "\f", "U+000B", "U+001C", "U+001D", "U+001E",
     "U+001F", "U+0085", "U+00A0", "U+1680", "U+2000", "U+2001", "U+2002",
     "U+2003", "U+2004", "U+2005", "U+2006", "U+2007", "U+2008", "U+2009",
     "U+200A", "U+2028", "U+2029", "U+202F", "U+205F", "U+3000"}

\* How many characters of s before position i become two characters
Widened(s, i, pairs) == Cardinality({j \in 1..(i - 1) : s[j] \in DOMAIN pairs})

\* The position of s whose image holds position k of the converted text
SourceOf(s, k, pairs) ==
    CHOOSE i \in 1..Len(s) :
        /\ i + Widened(s, i, pairs) <= k
        /\ k <= i + Widened(s, i + 1, pairs)

\* s with every character of DOMAIN single replaced by its image, every
\* character of DOMAIN pairs by its two images, the others kept
ConvertCase(s, single, pairs) ==
    [k \in 1..(Len(s) + Widened(s, Len(s) + 1, pairs)) |->
        IF s[SourceOf(s, k, pairs)] \in DOMAIN pairs
        THEN pairs[s[SourceOf(s, k, pairs)]]
                 [k - SourceOf(s, k, pairs) - Widened(s, SourceOf(s, k, pairs), pairs) + 1]
        ELSE IF s[SourceOf(s, k, pairs)] \in DOMAIN single
        THEN single[s[SourceOf(s, k, pairs)]]
        ELSE s[SourceOf(s, k, pairs)]]

\* str.lower()
lower(s) == ConvertCase(s, LowerMap, LowerPairs)

RECURSIVE lstrip(_)
lstrip(s) == IF s # <<>> /\ Head(s) \in Whitespace THEN lstrip(Tail(s)) ELSE s

RECURSIVE rstrip(_)
rstrip(s) ==
    IF s # <<>> /\ s[Len(s)] \in Whitespace
    THEN rstrip(SubSeq(s, 1, Len(s) - 1))
    ELSE s

\* str.strip()
strip(s) == rstrip(lstrip(s))

\* str.replace(old, new) for one-character old and new
replace(s, old, new) == [i \in 1..Len(s) |-> IF s[i] = old THEN new ELSE s[i]]

(***************************************************************************)
(* providers/billboard.py: the chart table and chart-name resolution       *)
(***************************************************************************)
hot_100 == <<"h", "o", "t", "-", "1", "0", "0">>
billboard_200 == <<"b", "i", "l", "l", "b", "o", "a", "r", "d", "-", "2", "0", "0">>
global_200 == <<"g", "l", "o", "b", "a", "l", "-", "2", "0", "0">>
artist_100 == <<"a", "r", "t", "i", "s", "t", "-", "1", "0", "0">>
streaming_songs ==
    <<"s", "t", "r", "e", "a", "m", "i", "n", "g", "-", "s", "o", "n", "g", "s">>
radio_songs == <<"r", "a", "d", "i", "o", "-", "s", "o", "n", "g", "s">>
digital_song_sales ==
    <<"d", "i", "g", "i", "t", "a", "l", "-", "s", "o", "n", "g", "-",
      "s", "a", "l", "e", "s">>

\* list(CHART_URLS.keys()), in the order of the dict
CHART_KEYS ==
    <<hot_100, billboard_200, global_200, artist_100, streaming_songs,
      radio_songs, digital_song_sales>>

BASE_URL == <<"https://www.billboard.com">>

\* BillboardProvider.CHART_URLS
CHART_URLS ==
    hot_100 :> <<"/charts/hot-100">> @@
    billboard_200 :> <<"/charts/billboard-200">> @@
    global_200 :> <<"/charts/global-200">> @@
    artist_100 :> <<"/charts/artist-100">> @@
    streaming_songs :> <<"/charts/streaming-songs">> @@
    radio_songs :> <<"/charts/radio-songs">> @@
    digital_song_sales :> <<"/charts/digital-song-sales">>

\* fallback_map of _normalize_chart_name
fallback_map ==
    <<"h", "o", "t", " ", "1", "0", "0">> :> hot_100 @@
    <<"b", "i", "l", "l", "b", "o", "a", "r", "d", " ", "h", "o", "t", " ",
      "1", "0", "0">> :> hot_100 @@
    <<"2", "0", "0">> :> billboard_200 @@
    <<"b", "i", "l", "l", "b", "o", "a", "r", "d", " ", "2", "0", "0">> :> billboard_200 @@
    <<"g", "l", "o", "b", "a", "l">> :> global_200 @@
    <<"a", "r", "t", "i", "s", "t">> :> artist_100

\* warnings.warn(f"Chart '{chart_name}' not found, falling back to hot-100")
FallbackWarning(name) == [warning |-> "not found, falling back to hot-100", chart |-> name]

\* ValueError(f"Unknown chart: {chart_name}. Available: {list(self.CHART_URLS.keys())}")
UnknownChart(name) ==
    [status |-> "ValueError", error |-> "Unknown chart", chart |-> name,
     available |-> CHART_KEYS]

Returned(value, warned) == [status |-> "ok", value |-> value, warned |-> warned]

\* A buggy resolution: underscores are not turned into hyphens.
_normalize_chart_name_no_underscore(name, cfg) ==
    LET name_lower == strip(lower(name))
        normalized == replace(name_lower, " ", "-")
    IN  IF name_lower \in DOMAIN CHART_URLS THEN Returned(name_lower, <<>>)
        ELSE IF normalized \in DOMAIN CHART_URLS THEN Returned(normalized, <<>>)
        ELSE IF name_lower \in DOMAIN fallback_map
        THEN Returned(fallback_map[name_lower], <<>>)
        ELSE IF cfg.fallback_to_default
        THEN Returned(hot_100, <<FallbackWarning(name)>>)
        ELSE UnknownChart(name)

\* A buggy resolution: the fallback_to_default option is not consulted.
_normalize_chart_name_always_fallback(name, cfg) ==
    LET name_lower == strip(lower(name))
        normalized == replace(replace(name_lower, " ", "-"), "_", "-")
    IN  IF name_lower \in DOMAIN CHART_URLS THEN Returned(name_lower, <<>>)
        ELSE IF normalized \in DOMAIN CHART_URLS THEN Returned(normalized, <<>>)
        ELSE IF name_lower \in DOMAIN fallback_map
        THEN Returned(fallback_map[name_lower], <<>>)
        ELSE Returned(hot_100, <<FallbackWarning(name)>>)

\* A buggy resolution: an alias is returned as it was given.
_normalize_chart_name_alias_kept(name, cfg) ==
    LET name_lower == strip(lower(name))
        normalized == replace(replace(name_lower, " ", "-"), "_", "-")
    IN  IF name_lower \in DOMAIN CHART_URLS THEN Returned(name_lower, <<>>)
        ELSE IF normalized \in DOMAIN CHART_URLS THEN Returned(normalized, <<>>)
        ELSE IF name_lower \in DOMAIN fallback_map
        THEN Returned(name_lower, <<>>)
        ELSE IF cfg.fallback_to_default
        THEN Returned(hot_100, <<FallbackWarning(name)>>)
        ELSE UnknownChart(name)

\* BillboardProvider._normalize_chart_name: the value returned with the
\* warnings emitted on the way, or the ValueError raised.
_normalize_chart_name(name, cfg) ==
    LET name_lower == strip(lower(name))
        normalized == replace(replace(name_lower, " ", "-"), "_", "-")
    IN  IF name_lower \in DOMAIN CHART_URLS THEN Returned(name_lower, <<>>)
        ELSE IF normalized \in DOMAIN CHART_URLS THEN Returned(normalized, <<>>)
        ELSE IF name_lower \in DOMAIN fallback_map
        THEN Returned(fallback_map[name_lower], <<>>)
        ELSE IF cfg.fallback_to_default
        THEN Returned(hot_100, <<FallbackWarning(name)>>)
        ELSE UnknownChart(name)

\* BillboardProvider._get_chart_url
_get_chart_url(name, cfg) ==
    LET r == _normalize_chart_name(name, cfg)
    IN  IF r.status # "ok" THEN r
        ELSE LET path == IF r.value \in DOMAIN CHART_URLS
                         THEN CHART_URLS[r.value]
                         ELSE CHART_URLS[hot_100]
             IN  Returned(BASE_URL \o path, r.warned)

(***************************************************************************)
(* Text: str.isdigit, int(), str.upper, str.split, re.sub(r"\s+", " ")     *)
(***************************************************************************)
\* The decimal digits (category Nd) with their values: 0-9, Arabic-Indic
\* three, fullwidth one
DigitValue ==
    "0" :> 0 @@ "1" :> 1 @@ "2" :> 2 @@ "3" :> 3 @@ "4" :> 4 @@
    "5" :> 5 @@ "6" :> 6 @@ "7" :> 7 @@ "8" :> 8 @@ "9" :> 9 @@
    "U+0663" :> 3 @@ "U+FF11" :> 1

\* The character U+00B2 (superscript two), written by name: str.isdigit() is
\* true of it and int() rejects it.
SUPERSCRIPT_TWO == "U+00B2"

\* The digits that are no decimal digits: superscript two, circled one
OtherDigits == {SUPERSCRIPT_TWO, "U+2460"}

\* str.isdigit(): every character is a digit and there is at least one.
isdigit(s) ==
    /\ s # <<>>
    /\ \A i \in 1..Len(s) : s[i] \in DOMAIN DigitValue \cup OtherDigits

RECURSIVE DecimalValue(_)
DecimalValue(s) ==
    IF s = <<>> THEN 0
    ELSE 10 * DecimalValue(SubSeq(s, 1, Len(s) - 1)) + DigitValue[s[Len(s)]]

\* int(s) for a text s of which isdigit() holds: the number, or ValueError
\* when a character is no decimal digit.
int(s) ==
    IF \A i \in 1..Len(s) : s[i] \in DOMAIN DigitValue
    THEN [status |-> "ok", value |-> DecimalValue(s)]
    ELSE [status |-> "ValueError"]

\* The characters str.upper() turns into one other character: a-z, e acute,
\* Cyrillic a, dotless i, long s
UpperMap ==
    "a" :> "A" @@ "b" :> "B" @@ "c" :> "C" @@ "d" :> "D" @@ "e" :> "E" @@
    "f" :> "F" @@ "g" :> "G" @@ "h" :> "H" @@ "i" :> "I" @@ "j" :> "J" @@
    "k" :> "K" @@ "l" :> "L" @@ "m" :> "M" @@ "n" :> "N" @@ "o" :> "O" @@
    "p" :> "P" @@ "q" :> "Q" @@ "r" :> "R" @@ "s" :> "S" @@ "t" :> "T" @@
    "u" :> "U" @@ "v" :> "V" @@ "w" :> "W" @@ "x" :> "X" @@ "y" :> "Y" @@
    "z" :> "Z" @@
    "U+00E9" :> "U+00C9" @@ "U+0430" :> "U+0410" @@ "U+0131" :> "I" @@
    "U+017F" :> "S"

\* The characters str.upper() turns into two: sharp s
UpperPairs == "U+00DF" :> <<"S", "S">>

\* str.upper()
upper(s) == ConvertCase(s, UpperMap, UpperPairs)

\* str.isupper() of one character: the upper-case letters
isupper(c) == c \in DOMAIN LowerMap \cup DOMAIN LowerPairs

\* The letters: str.isalpha() of one character
Letters ==
    DOMAIN LowerMap \cup DOMAIN LowerPairs \cup DOMAIN UpperMap \cup DOMAIN UpperPairs

\* sub in s, for a one-character sub
Contains(s, sub) == \E i \in 1..Len(s) : s[i] = sub

RECURSIVE split(_, _)
\* str.split(sep) for a one-character sep
split(s, sep) ==
    IF ~Contains(s, sep) THEN <<s>>
    ELSE LET i == CHOOSE k \in 1..Len(s) :
                      s[k] = sep /\ \A j \in 1..(k - 1) : s[j] # sep
         IN  <<SubSeq(s, 1, i - 1)>> \o split(SubSeq(s, i + 1, Len(s)), sep)

\* re.sub(r"\s+", " ", s): of every run of whitespace the first character
\* stays, as a space
collapse_whitespace(s) ==
    LET kept == SelectSeq([i \in 1..Len(s) |-> i],
                          LAMBDA i : \/ s[i] \notin Whitespace
                                     \/ i = 1
                                     \/ s[i - 1] \notin Whitespace)
    IN  [k \in 1..Len(kept) |->
            IF s[kept[k]] \in Whitespace THEN " " ELSE s[kept[k]]]

(***************************************************************************)
(* A chart row of the page: the children of one                            *)
(* <ul class="o-chart-results-list-row">, in document order.  Every        *)
(* element holds at most one text node (text; <<>> when it has none).      *)
(***************************************************************************)
NoAttrs == <<>>

\* <span class="c-label">text</span>
Label(text) ==
    [tag |-> "span", label |-> TRUE, href |-> <<>>, text |-> text, attrs |-> NoAttrs]
\* <span>text</span>
Span(text) ==
    [tag |-> "span", label |-> FALSE, href |-> <<>>, text |-> text, attrs |-> NoAttrs]
\* <a href="href"><span class="c-label">text</span></a>
LinkedLabel(href, text) ==
    [tag |-> "a", label |-> TRUE, href |-> href, text |-> text, attrs |-> NoAttrs]
\* <a href="href">text</a>
Link(href, text) ==
    [tag |-> "a", label |-> FALSE, href |-> href, text |-> text, attrs |-> NoAttrs]
\* <h3 class="c-title">text</h3>
Title(text) ==
    [tag |-> "h3", label |-> FALSE, href |-> <<>>, text |-> text, attrs |-> NoAttrs]
\* <img data-lazy-src=... data-src=... data-original=... src=...>
Img(attrs) ==
    [tag |-> "img", label |-> FALSE, href |-> <<>>, text |-> <<>>, attrs |-> attrs]

IsLabel(n) == n.label
IsLink(n) == n.tag = "a"
IsTitle(n) == n.tag = "h3"
IsImg(n) == n.tag = "img"

\* row.css("span.c-label") / row.find_all("span", class_=re.compile(r"c-label"))
LabelSpans(row) == SelectSeq(row, IsLabel)
\* row.css("a") / row.find_all("a")
Links(row) == SelectSeq(row, IsLink)

(***************************************************************************)
(* spiders/billboard.py: the per-row extractors                            *)
(***************************************************************************)
RowNone == [status |-> "None"]
Raised(error) == [status |-> "raised", error |-> error]
Value(v) == [status |-> "ok", value |-> v]

\* A buggy rank extraction: a label that is no number counts as rank 1.
_extract_rank_default_one(row) ==
    LET spans == SelectSeq(LabelSpans(row), LAMBDA n : n.text # <<>>)
        digits == SelectSeq(spans, LAMBDA n : isdigit(strip(n.text)))
    IN  IF digits = <<>>
        THEN (IF spans = <<>> THEN Value(0) ELSE Value(1))
        ELSE LET n == int(strip(digits[1].text))
             IN  IF n.status = "ok" THEN Value(n.value) ELSE Raised("ValueError")

\* BillboardSpider._extract_rank: the first pure-digit text among the text
\* nodes of the row's c-label spans, as a number; 0 when there is none.
_extract_rank(row) ==
    LET spans == SelectSeq(LabelSpans(row), LAMBDA n : n.text # <<>>)
        digits == SelectSeq(spans, LAMBDA n : isdigit(strip(n.text)))
    IN  IF digits = <<>> THEN Value(0)
        ELSE LET n == int(strip(digits[1].text))
             IN  IF n.status = "ok" THEN Value(n.value) ELSE Raised("ValueError")

\* BillboardSpider._extract_title
_extract_title(row) ==
    LET titles == SelectSeq(SelectSeq(row, IsTitle), LAMBDA n : n.text # <<>>)
    IN  IF titles = <<>> THEN <<>> ELSE strip(titles[1].text)

\* A buggy concatenation: only the first link text is kept.
JoinArtist_first_only(artist, text) ==
    IF artist = <<>> THEN text ELSE artist

\* artist += f" & {text}"
JoinArtist(artist, text) ==
    IF artist = <<>> THEN text ELSE artist \o <<" ", "&", " ">> \o text

RECURSIVE spider_artist_links(_, _, _, _)
\* Method 1 of BillboardSpider._extract_artist: the loop over row.css("a")
spider_artist_links(links, title, is_album_chart, artist) ==
    IF links = <<>> THEN artist
    ELSE LET link == Head(links)
             text == strip(link.text)
             takes == /\ Contains(link.href, "/artist/")
                      /\ text # <<>>
                      /\ (is_album_chart \/ text # title)
         IN  spider_artist_links(Tail(links), title, is_album_chart,
                                 IF takes THEN JoinArtist(artist, text) ELSE artist)

\* The exclusion list of status markers
StatusMarkers ==
    { <<"N", "E", "W">>,
      <<"R", "E", "-", "E", "N", "T", "R", "Y">>,
      <<"R", "E", "-", "\n", "E", "N", "T", "R", "Y">>,
      <<"-">>,
      <<>> }

\* The filter both implementations apply to a label text in Method 2
LabelCandidate(text, title) ==
    /\ text # <<>>
    /\ ~isdigit(text)
    /\ text # title
    /\ 2 < Len(text) /\ Len(text) < 150
    /\ strip(upper(text)) \notin StatusMarkers

\* The test on a candidate that is not inside a link
LooksLikeArtist(text) ==
    \/ Contains(text, "&")
    \/ Contains(text, ",")
    \/ Len(text) > 8
    \/ (text # <<>> /\ isupper(text[1]))

RECURSIVE spider_artist_labels(_, _, _)
\* Method 2 of BillboardSpider._extract_artist: the loop over
\* row.css("span.c-label"), which stops at the first candidate inside a link.
spider_artist_labels(spans, title, artist) ==
    IF spans = <<>> THEN artist
    ELSE LET span == Head(spans)
             text == strip(collapse_whitespace(span.text))
         IN  IF span.text = <<>> \/ ~LabelCandidate(text, title)
             THEN spider_artist_labels(Tail(spans), title, artist)
             ELSE IF span.tag = "a" THEN text
             ELSE IF LooksLikeArtist(text) /\ artist = <<>>
             THEN spider_artist_labels(Tail(spans), title, text)
             ELSE spider_artist_labels(Tail(spans), title, artist)

\* BillboardSpider._extract_artist
spider_extract_artist(row, title, is_album_chart) ==
    LET artist == spider_artist_links(Links(row), title, is_album_chart, <<>>)
    IN  IF artist # <<>> THEN artist
        ELSE spider_artist_labels(LabelSpans(row), title, <<>>)

IMAGE_ATTRS == <<"data-lazy-src", "data-src", "data-original", "src">>

\* url and "lazyload-fallback" not in url and url.startswith("http")
UsableImage(url) ==
    url # <<>> /\ ~Contains(url, "lazyload-fallback") /\ Head(url) = "http"

\* BillboardSpider._extract_image
spider_extract_image(row) ==
    LET imgs == SelectSeq(row, IsImg)
    IN  IF imgs = <<>> THEN <<>>
        ELSE LET usable == SelectSeq(IMAGE_ATTRS,
                               LAMBDA a : UsableImage(imgs[1].attrs[a]))
             IN  IF usable = <<>> THEN <<>> ELSE imgs[1].attrs[usable[1]]

\* [a.strip() for a in artist.split(sep)]
SplitStrip(artist, sep) ==
    LET parts == split(artist, sep)
    IN  [i \in 1..Len(parts) |-> strip(parts[i])]

\* A buggy split: the comma is looked for before the ampersand.
_split_artists_comma_first(artist) ==
    IF Contains(artist, ",") THEN SplitStrip(artist, ",")
    ELSE IF Contains(artist, "&") THEN SplitStrip(artist, "&")
    ELSE <<artist>>

\* BillboardSpider._split_artists
_split_artists(artist) ==
    IF Contains(artist, "&") THEN SplitStrip(artist, "&")
    ELSE IF Contains(artist, ",") THEN SplitStrip(artist, ",")
    ELSE <<artist>>

(***************************************************************************)
(* Text: re.search of the patterns the extractors use.  A pattern is       *)
(* matched at the leftmost position where it matches; \d+ takes the whole  *)
(* run of digits from there on, and [:\s]* and \s+ the whole run of their  *)
(* characters, since no shorter choice lets the rest match.                *)
(***************************************************************************)
\* \d
IsDecimal(c) == c \in DOMAIN DigitValue

\* The last position of the run of \d characters that starts at i
DigitsEnd(s, i) ==
    CHOOSE j \in i..Len(s) :
        /\ \A k \in i..j : IsDecimal(s[k])
        /\ (j = Len(s) \/ ~IsDecimal(s[j + 1]))

\* The first position from i on that holds no character of the class
SkipClass(s, i, class) ==
    CHOOSE j \in i..(Len(s) + 1) :
        /\ \A k \in i..(j - 1) : s[k] \in class
        /\ (j = Len(s) + 1 \/ s[j] \notin class)

\* re.IGNORECASE: two characters match when they have the same lower-case
\* letter; long s counts as s, and I with dot above and dotless i as i
IgnoreCase(c) ==
    IF c \in DOMAIN LowerMap THEN LowerMap[c]
    ELSE IF c = "U+017F" THEN "s"
    ELSE IF c \in {"U+0130", "U+0131"} THEN "i"
    ELSE c

\* The literal word stands in s at position i, letters compared without
\* regard to case under re.IGNORECASE
LiteralAt(s, i, word, ignorecase) ==
    /\ i + Len(word) - 1 <= Len(s)
    /\ \A k \in 1..Len(word) :
           IF ignorecase THEN IgnoreCase(s[i + k - 1]) = IgnoreCase(word[k])
           ELSE s[i + k - 1] = word[k]

NoMatch == [status |-> "None"]

\* int(match.group(1)) for the match whose group 1 is the run of digits at d
GroupNumber(s, d) == Value(DecimalValue(SubSeq(s, d, DigitsEnd(s, d))))

\* The smallest position of a set of positions known not to be empty
FirstOf(positions) == CHOOSE i \in positions : \A j \in positions : i <= j

week == <<"w", "e", "e", "k">>
LW == <<"L", "W">>
Peak == <<"P", "e", "a", "k">>

\* r"(\d+)\s+weeks?" matches at position i
WeeksAt(s, i, ignorecase) ==
    /\ IsDecimal(s[i])
    /\ SkipClass(s, DigitsEnd(s, i) + 1, Whitespace) > DigitsEnd(s, i) + 1
    /\ LiteralAt(s, SkipClass(s, DigitsEnd(s, i) + 1, Whitespace), week, ignorecase)

\* re.search(r"(\d+)\s+weeks?", s, flags): group 1 as a number
search_weeks(s, ignorecase) ==
    LET starts == {i \in 1..Len(s) : WeeksAt(s, i, ignorecase)}
    IN  IF starts = {} THEN NoMatch ELSE GroupNumber(s, FirstOf(starts))

\* r"<word>[:\s]*(\d+)" with re.IGNORECASE matches at position i
LabelledAt(s, i, word) ==
    /\ LiteralAt(s, i, word, TRUE)
    /\ SkipClass(s, i + Len(word), Whitespace \cup {":"}) <= Len(s)
    /\ IsDecimal(s[SkipClass(s, i + Len(word), Whitespace \cup {":"})])

\* re.search(r"<word>[:\s]*(\d+)", s, re.IGNORECASE): group 1 as a number
search_labelled(s, word) ==
    LET starts == {i \in 1..Len(s) : LabelledAt(s, i, word)}
    IN  IF starts = {} THEN NoMatch
        ELSE GroupNumber(s, SkipClass(s, FirstOf(starts) + Len(word),
                                      Whitespace \cup {":"}))

\* The positions of the digits that r"Peak.*?\d+" can reach from a "Peak"
\* at position i: a digit behind it with no line break in between
PeakDigits(s, i) ==
    {d \in (i + Len(Peak))..Len(s) :
        /\ IsDecimal(s[d])
        /\ \A k \in (i + Len(Peak))..(d - 1) : s[k] # "\n"}

\* re.search(r"Peak.*?(\d+)", s): group 1 as a number
search_peak_lazy(s) ==
    LET starts == {i \in 1..Len(s) :
                      LiteralAt(s, i, Peak, FALSE) /\ PeakDigits(s, i) # {}}
    IN  IF starts = {} THEN NoMatch
        ELSE GroupNumber(s, FirstOf(PeakDigits(s, FirstOf(starts))))

\* re.search(r"(\d+)", s): group 1 as a number
search_digits(s) ==
    LET starts == {i \in 1..Len(s) : IsDecimal(s[i])}
    IN  IF starts = {} THEN NoMatch ELSE GroupNumber(s, FirstOf(starts))

RECURSIVE join(_, _)
\* sep.join(texts)
join(texts, sep) ==
    IF texts = <<>> THEN <<>>
    ELSE IF Len(texts) = 1 THEN texts[1]
    ELSE texts[1] \o sep \o join(Tail(texts), sep)

(***************************************************************************)
(* The row as text: its text nodes and its markup                          *)
(***************************************************************************)
\* row.css("::text").getall(): the text nodes of the row in document order
text_nodes(row) ==
    LET holders == SelectSeq(row, LAMBDA n : n.text # <<>>)
    IN  [i \in 1..Len(holders) |-> holders[i].text]

\* The attributes of an img element as they stand in the markup
img_markup(attrs) ==
    join([i \in 1..Len(IMAGE_ATTRS) |->
             IF attrs[IMAGE_ATTRS[i]] = <<>> THEN <<>>
             ELSE <<" ", IMAGE_ATTRS[i], "=", "'">> \o attrs[IMAGE_ATTRS[i]] \o <<"'">>],
         <<>>)

\* The markup of one element of the row
outer_html(n) ==
    IF n.tag = "img" THEN <<"<img">> \o img_markup(n.attrs) \o <<">">>
    ELSE IF n.tag = "h3" THEN <<"<h3 class='c-title'>">> \o n.text \o <<"</h3>">>
    ELSE IF n.tag = "a" /\ n.label
    THEN <<"<a href='">> \o n.href \o <<"'>", "<span class='c-label'>">>
             \o n.text \o <<"</span>", "</a>">>
    ELSE IF n.tag = "a"
    THEN <<"<a href='">> \o n.href \o <<"'>">> \o n.text \o <<"</a>">>
    ELSE IF n.label
    THEN <<"<span class='c-label'>">> \o n.text \o <<"</span>">>
    ELSE <<"<span>">> \o n.text \o <<"</span>">>

\* row.get(): the markup of the row
row_markup(row) ==
    <<"<ul class='o-chart-results-list-row'>">>
        \o join([i \in 1..Len(row) |-> outer_html(row[i])], <<>>)
        \o <<"</ul>">>

\* BillboardSpider._extract_weeks
_extract_weeks(row) ==
    LET weeks_match == search_weeks(row_markup(row), TRUE)
    IN  IF weeks_match # NoMatch THEN weeks_match.value ELSE 0

\* BillboardSpider._extract_last_week
_extract_last_week(row) ==
    LET lw_match == search_labelled(join(text_nodes(row), <<" ">>), LW)
    IN  IF lw_match # NoMatch THEN lw_match.value ELSE 0

\* BillboardSpider._extract_peak
_extract_peak(row, current_rank) ==
    LET peak_match == search_labelled(join(text_nodes(row), <<" ">>), Peak)
    IN  IF peak_match # NoMatch THEN peak_match.value ELSE current_rank

\* A buggy row dict: the image is extracted whatever include_images says.
RowDict_always_image(rank, title, artist, row, include_images, entry_type) ==
    LET artists == _split_artists(artist)
    IN  [rank |-> rank, title |-> title,
         artist |-> IF artists # <<>> THEN artists[1] ELSE artist,
         artists |-> artists,
         image |-> spider_extract_image(row),
         weeks_on_chart |-> _extract_weeks(row),
         last_week |-> _extract_last_week(row),
         peak_position |-> _extract_peak(row, rank),
         entry_type |-> entry_type]

\* The dict both row parsers of the spider return
RowDict(rank, title, artist, row, include_images, entry_type) ==
    LET artists == _split_artists(artist)
    IN  [rank |-> rank, title |-> title,
         artist |-> IF artists # <<>> THEN artists[1] ELSE artist,
         artists |-> artists,
         image |-> IF include_images THEN spider_extract_image(row) ELSE <<>>,
         weeks_on_chart |-> _extract_weeks(row),
         last_week |-> _extract_last_week(row),
         peak_position |-> _extract_peak(row, rank),
         entry_type |-> entry_type]

\* BillboardSpider._parse_single_row
_parse_single_row(row, include_images) ==
    LET rank == _extract_rank(row)
        title == _extract_title(row)
        artist == spider_extract_artist(row, title, FALSE)
    IN  IF rank.status # "ok" THEN rank
        ELSE IF rank.value = 0 THEN RowNone
        ELSE IF title = <<>> THEN RowNone
        ELSE IF artist = <<>> THEN RowNone
        ELSE Value(RowDict(rank.value, title, artist, row, include_images, "song"))

\* BillboardSpider._parse_album_row
_parse_album_row(row, include_images) ==
    LET rank == _extract_rank(row)
        title == _extract_title(row)
        artist == spider_extract_artist(row, title, TRUE)
    IN  IF rank.status # "ok" THEN rank
        ELSE IF rank.value = 0 THEN RowNone
        ELSE IF title = <<>> THEN RowNone
        ELSE IF artist = <<>> THEN RowNone
        ELSE Value(RowDict(rank.value, title, artist, row, include_images, "album"))

(***************************************************************************)
(* list.sort(key=lambda x: x.rank): a stable sort by rank                  *)
(***************************************************************************)
\* A buggy sort: the list is left in discovery order.
sort_by_rank_left_unsorted(entries) == entries

RECURSIVE sort_by_rank_ties_reversed(_)
\* A buggy sort: an entry is placed before the entries of its rank.
sort_by_rank_ties_reversed(entries) ==
    IF entries = <<>> THEN <<>>
    ELSE LET e == entries[Len(entries)]
             sorted == sort_by_rank_ties_reversed(SubSeq(entries, 1, Len(entries) - 1))
             k == Cardinality({i \in 1..Len(sorted) : sorted[i].rank < e.rank})
         IN  SubSeq(sorted, 1, k) \o <<e>> \o SubSeq(sorted, k + 1, Len(sorted))

RECURSIVE sort_by_rank(_)
sort_by_rank(entries) ==
    IF entries = <<>> THEN <<>>
    ELSE LET e == entries[Len(entries)]
             sorted == sort_by_rank(SubSeq(entries, 1, Len(entries) - 1))
             k == Cardinality({i \in 1..Len(sorted) : sorted[i].rank <= e.rank})
         IN  SubSeq(sorted, 1, k) \o <<e>> \o SubSeq(sorted, k + 1, Len(sorted))

(***************************************************************************)
(* spiders/billboard.py: the page-level scans                              *)
(***************************************************************************)
\* A buggy limit test: the scan stops one accepted row too late.
ReachedLimit_off_by_one(entries, max_chart_entries) ==
    max_chart_entries # 0 /\ Len(entries) > max_chart_entries

\* max_chart_entries and len(entries) >= max_chart_entries
ReachedLimit(entries, max_chart_entries) ==
    max_chart_entries # 0 /\ Len(entries) >= max_chart_entries

RECURSIVE spider_scan_rows(_, _, _)
\* The loop over the rows in _parse_entries and _parse_album_entries, parsed
\* holding what the row parser answers for each row: the entries collected,
\* or the exception a row parser let escape.
spider_scan_rows(parsed, max_chart_entries, entries) ==
    IF parsed = <<>> THEN Value(entries)
    ELSE LET entry == Head(parsed)
         IN  IF entry.status = "raised" THEN entry
             ELSE IF entry.status = "None"
             THEN spider_scan_rows(Tail(parsed), max_chart_entries, entries)
             ELSE IF ReachedLimit(Append(entries, entry.value), max_chart_entries)
             THEN Value(Append(entries, entry.value))
             ELSE spider_scan_rows(Tail(parsed), max_chart_entries,
                                   Append(entries, entry.value))

\* entries.sort(key=lambda e: e["rank"]); return entries
sorted_entries(scan) ==
    IF scan.status = "ok" THEN Value(sort_by_rank(scan.value)) ELSE scan

\* A buggy scan: all rows are collected and sorted, then the list is cut to
\* the maximum.
spider_parse_entries_sort_then_cut(rows, cfg) ==
    LET scan == spider_scan_rows(
                    [i \in 1..Len(rows) |-> _parse_single_row(rows[i], cfg.include_images)],
                    0, <<>>)
    IN  IF scan.status # "ok" THEN scan
        ELSE IF cfg.max_chart_entries = 0 \/ Len(scan.value) <= cfg.max_chart_entries
        THEN Value(sort_by_rank(scan.value))
        ELSE Value(SubSeq(sort_by_rank(scan.value), 1, cfg.max_chart_entries))

\* BillboardSpider._parse_entries
spider_parse_entries(rows, cfg) ==
    sorted_entries(spider_scan_rows(
        [i \in 1..Len(rows) |-> _parse_single_row(rows[i], cfg.include_images)],
        cfg.max_chart_entries, <<>>))

\* BillboardSpider._parse_album_entries
_parse_album_entries(rows, cfg) ==
    sorted_entries(spider_scan_rows(
        [i \in 1..Len(rows) |-> _parse_album_row(rows[i], cfg.include_images)],
        cfg.max_chart_entries, <<>>))

(***************************************************************************)
(* providers/billboard.py: the extractors and the scan of the provider     *)
(***************************************************************************)
RECURSIVE provider_artist_links(_, _, _)
\* Method 1 of BillboardProvider._extract_artist
provider_artist_links(links, song_title, artist) ==
    IF links = <<>> THEN artist
    ELSE LET link == Head(links)
             text == strip(link.text)
             takes == /\ Contains(link.href, "/artist/")
                      /\ text # <<>>
                      /\ text # song_title
         IN  provider_artist_links(Tail(links), song_title,
                                   IF takes THEN JoinArtist(artist, text) ELSE artist)

RECURSIVE provider_artist_candidates(_, _, _)
\* Method 2 of BillboardProvider._extract_artist: the candidates list, a
\* label inside a link inserted at the front, another one appended.
provider_artist_candidates(spans, song_title, candidates) ==
    IF spans = <<>> THEN candidates
    ELSE LET span == Head(spans)
             text == strip(collapse_whitespace(strip(span.text)))
         IN  IF ~LabelCandidate(text, song_title)
             THEN provider_artist_candidates(Tail(spans), song_title, candidates)
             ELSE IF span.tag = "a"
             THEN provider_artist_candidates(Tail(spans), song_title,
                                             <<text>> \o candidates)
             ELSE IF LooksLikeArtist(text)
             THEN provider_artist_candidates(Tail(spans), song_title,
                                             Append(candidates, text))
             ELSE provider_artist_candidates(Tail(spans), song_title, candidates)

\* BillboardProvider._extract_artist
provider_extract_artist(row, song_title) ==
    LET artist == provider_artist_links(Links(row), song_title, <<>>)
        candidates == provider_artist_candidates(LabelSpans(row), song_title, <<>>)
    IN  IF artist # <<>> THEN artist
        ELSE IF candidates # <<>> THEN candidates[1]
        ELSE <<>>

\* BillboardProvider._extract_image
provider_extract_image(row) ==
    LET imgs == SelectSeq(row, IsImg)
    IN  IF imgs = <<>> THEN <<>>
        ELSE LET usable == SelectSeq(IMAGE_ATTRS,
                               LAMBDA a : UsableImage(imgs[1].attrs[a]))
             IN  IF usable = <<>> THEN <<>> ELSE imgs[1].attrs[usable[1]]

\* The rank of a row in BillboardProvider._parse_entries: the text of the
\* first c-label span when it is a number, else 0.
provider_rank(row) ==
    LET spans == LabelSpans(row)
    IN  IF spans = <<>> THEN Value(0)
        ELSE IF ~isdigit(strip(spans[1].text)) THEN Value(0)
        ELSE LET n == int(strip(spans[1].text))
             IN  IF n.status = "ok" THEN Value(n.value) ELSE Raised("ValueError")

\* title_elem.get_text(strip=True) if title_elem else ""
provider_title(row) ==
    LET titles == SelectSeq(row, IsTitle)
    IN  IF titles = <<>> THEN <<>> ELSE strip(titles[1].text)

\* The artists list of BillboardProvider._parse_entries
provider_artists(artist) ==
    IF Contains(artist, "&") THEN SplitStrip(artist, "&")
    ELSE IF Contains(artist, ",") THEN SplitStrip(artist, ",")
    ELSE <<artist>>

\* row.find(string=re.compile(pattern)): the first text node of the row in
\* which the pattern is found, found holding in document order the text
\* nodes in which it is found
find_string(found) ==
    IF found = <<>> THEN NoMatch ELSE Value(found[1])

\* BillboardProvider._extract_weeks: the first run of digits of the first
\* text node that holds "<number> week"
provider_extract_weeks(row) ==
    LET weeks_text == find_string(SelectSeq(text_nodes(row),
                                           LAMBDA t : search_weeks(t, FALSE) # NoMatch))
    IN  IF weeks_text = NoMatch THEN 0
        ELSE IF search_digits(weeks_text.value) # NoMatch
        THEN search_digits(weeks_text.value).value
        ELSE 0

\* The element holds a span, and re.search(r"LW", span.string, re.IGNORECASE)
\* finds a match
IsLwSpan(n) ==
    /\ n.tag = "span" \/ (n.tag = "a" /\ n.label)
    /\ \E i \in 1..Len(n.text) : LiteralAt(n.text, i, LW, TRUE)

\* int(text) of a text for which isdigit() holds
int_or_raise(text) ==
    IF int(text).status = "ok" THEN Value(int(text).value) ELSE Raised("ValueError")

\* Method 2 of BillboardProvider._extract_last_week: the first c-label span
\* under the parent of lw_span whose text is a number.  The parent of a span
\* of the row is the row; the parent of a span inside a link is the link,
\* which holds no other span.
provider_lw_in_parent(row, k) ==
    LET digits == SelectSeq(LabelSpans(row), LAMBDA n : isdigit(strip(n.text)))
    IN  IF row[k].tag = "span" /\ digits # <<>>
        THEN int_or_raise(strip(digits[1].text))
        ELSE NoMatch

\* Method 1 of BillboardProvider._extract_last_week: the element that
\* follows lw_span under the same parent, when its text is a number
provider_lw_next_sibling(row, k) ==
    IF row[k].tag = "span" /\ k < Len(row) /\ isdigit(strip(row[k + 1].text))
    THEN int_or_raise(strip(row[k + 1].text))
    ELSE NoMatch

\* Method 3 of BillboardProvider._extract_last_week
provider_lw_regex(row) ==
    LET lw_match == search_labelled(join(text_nodes(row), <<>>), LW)
    IN  IF lw_match # NoMatch THEN lw_match ELSE Value(0)

\* BillboardProvider._extract_last_week: the number returned, or the
\* ValueError of int()
provider_extract_last_week(row) ==
    LET spans == {k \in 1..Len(row) : IsLwSpan(row[k])}
    IN  IF spans = {} THEN provider_lw_regex(row)
        ELSE IF provider_lw_next_sibling(row, FirstOf(spans)) # NoMatch
        THEN provider_lw_next_sibling(row, FirstOf(spans))
        ELSE IF provider_lw_in_parent(row, FirstOf(spans)) # NoMatch
        THEN provider_lw_in_parent(row, FirstOf(spans))
        ELSE provider_lw_regex(row)

\* BillboardProvider._extract_peak
provider_extract_peak(row, current_rank) ==
    LET peak_text == find_string(SelectSeq(text_nodes(row),
                                          LAMBDA t : search_peak_lazy(t) # NoMatch))
        peak_match == search_labelled(join(text_nodes(row), <<>>), Peak)
    IN  IF peak_text # NoMatch THEN search_peak_lazy(peak_text.value).value
        ELSE IF peak_match # NoMatch THEN peak_match.value
        ELSE current_rank

\* ChartEntry(song=song, rank=rank, ...) of _parse_entries, last_week being
\* what _extract_last_week answered
provider_chart_entry(song, rank, weeks_on_chart, last_week, peak_position) ==
    IF last_week.status # "ok" THEN last_week
    ELSE ChartEntry([song |-> song, album |-> None, rank |-> rank,
                     weeks_on_chart |-> weeks_on_chart,
                     last_week |-> last_week.value,
                     peak_position |-> peak_position])

\* Song(...) and ChartEntry(song=song, rank=rank, ...) of _parse_entries
provider_entry(row, rank, song_title, artist, artists, image_url) ==
    provider_chart_entry(Song(song_title,
                              IF artists # <<>> THEN artists[1] ELSE artist,
                              artists, image_url),
                         rank,
                         provider_extract_weeks(row),
                         provider_extract_last_week(row),
                         provider_extract_peak(row, rank))

\* The try block from the artist on
provider_row_from_artist(row, rank, song_title, artist, include_images) ==
    IF artist = <<>> THEN RowNone
    ELSE provider_entry(row, rank, song_title, artist, provider_artists(artist),
                        IF include_images THEN provider_extract_image(row) ELSE <<>>)

\* The try block from the rank and the title on
provider_row_from_rank(row, rank, song_title, include_images) ==
    IF rank.status # "ok" THEN rank
    ELSE IF rank.value = 0 THEN RowNone
    ELSE IF song_title = <<>> THEN RowNone
    ELSE provider_row_from_artist(row, rank.value, song_title,
                                  provider_extract_artist(row, song_title),
                                  include_images)

\* The body of the try block of BillboardProvider._parse_entries for one
\* row: the ChartEntry built, None when the row is skipped by a continue,
\* or the exception raised.
provider_parse_row(row, include_images) ==
    provider_row_from_rank(row, provider_rank(row), provider_title(row),
                           include_images)

RECURSIVE provider_scan_rows(_, _, _)
\* The loop over the rows in BillboardProvider._parse_entries, parsed holding
\* the outcome of the try block for each row: an exception of a row is
\* caught and the row skipped.
provider_scan_rows(parsed, max_entries, entries) ==
    IF parsed = <<>> THEN entries
    ELSE LET entry == Head(parsed)
         IN  IF entry.status # "ok"
             THEN provider_scan_rows(Tail(parsed), max_entries, entries)
             ELSE IF ReachedLimit(Append(entries, entry.value), max_entries)
             THEN Append(entries, entry.value)
             ELSE provider_scan_rows(Tail(parsed), max_entries,
                                     Append(entries, entry.value))

\* BillboardProvider._parse_entries
provider_parse_entries(rows, cfg) ==
    Value(sort_by_rank(provider_scan_rows(
        [i \in 1..Len(rows) |-> provider_parse_row(rows[i], cfg.include_images)],
        cfg.max_chart_entries, <<>>)))

(***************************************************************************)
(* spiders/billboard.py: the parse callback; pipelines.py: assembly        *)
(***************************************************************************)
\* BillboardSpider.ALBUM_CHARTS
ALBUM_CHARTS == {billboard_200}

\* BillboardSpider.CHART_TITLES
CHART_TITLES ==
    hot_100 :> <<"Billboard Hot 100">> @@
    billboard_200 :> <<"Billboard 200">> @@
    global_200 :> <<"Global 200">> @@
    artist_100 :> <<"Artist 100">> @@
    streaming_songs :> <<"Streaming Songs">> @@
    radio_songs :> <<"Radio Songs">> @@
    digital_song_sales :> <<"Digital Song Sales">>

\* BillboardSpider.FALLBACK_DESCRIPTIONS and desc_map of get_latest
FALLBACK_DESCRIPTIONS ==
    hot_100 :> <<"The week's most popular songs across all genres, ranked by radio airplay, sales data, and streaming activity.">> @@
    billboard_200 :> <<"The week's most popular albums across all genres, ranked by album sales and audio streaming.">> @@
    global_200 :> <<"The week's most popular songs globally, ranked by streaming and sales activity.">>

\* date.today(): the day of the run, which is no date a page names
Today == [date |-> "today"]

\* dict.get(key, default)
Get(d, key, default) == IF key \in DOMAIN d THEN d[key] ELSE default

\* BillboardSpider._parse_description
_parse_description(response, name) ==
    IF response.meta_description # <<>> THEN strip(response.meta_description)
    ELSE Get(FALLBACK_DESCRIPTIONS, name,
             <<"The ">> \o name \o <<" chart on Billboard">>)

(***************************************************************************)
(* The publication date: datetime.date and the two "Week of" patterns      *)
(***************************************************************************)
\* month_map of _parse_date
month_map ==
    <<"j", "a", "n", "u", "a", "r", "y">> :> 1 @@
    <<"f", "e", "b", "r", "u", "a", "r", "y">> :> 2 @@
    <<"m", "a", "r", "c", "h">> :> 3 @@
    <<"a", "p", "r", "i", "l">> :> 4 @@
    <<"m", "a", "y">> :> 5 @@
    <<"j", "u", "n", "e">> :> 6 @@
    <<"j", "u", "l", "y">> :> 7 @@
    <<"a", "u", "g", "u", "s", "t">> :> 8 @@
    <<"s", "e", "p", "t", "e", "m", "b", "e", "r">> :> 9 @@
    <<"o", "c", "t", "o", "b", "e", "r">> :> 10 @@
    <<"n", "o", "v", "e", "m", "b", "e", "r">> :> 11 @@
    <<"d", "e", "c", "e", "m", "b", "e", "r">> :> 12

\* calendar: the number of days of a month
DaysInMonth(year, month) ==
    IF month \in {4, 6, 9, 11} THEN 30
    ELSE IF month # 2 THEN 31
    ELSE IF year % 4 = 0 /\ (year % 100 # 0 \/ year % 400 = 0) THEN 29
    ELSE 28

\* datetime.date(year, month, day): the date, or ValueError when the values
\* form no date of the calendar
date(year, month, day) ==
    IF /\ year \in 1..9999
       /\ month \in 1..12
       /\ day \in 1..DaysInMonth(year, month)
    THEN Value([year |-> year, month |-> month, day |-> day])
    ELSE Raised("ValueError")

Week_of == <<"W", "e", "e", "k", " ", "o", "f">>

\* \w
WordChars == Letters \cup DOMAIN DigitValue \cup OtherDigits \cup {"_"}

\* (\d{4}) matches at position i
FourDigitsAt(s, i) ==
    i + 3 <= Len(s) /\ \A k \in i..(i + 3) : IsDecimal(s[k])

\* (\d{1,2})<mark> matches at position i: a run of one or two digits with
\* the mark behind it
DayOrMonthAt(s, i, mark) ==
    /\ SkipClass(s, i, DOMAIN DigitValue) - i \in {1, 2}
    /\ SkipClass(s, i, DOMAIN DigitValue) <= Len(s)
    /\ s[SkipClass(s, i, DOMAIN DigitValue)] = mark

\* (\d{1,2}),\s+(\d{4}) matches at position d: the groups
DayYearAt(s, d) ==
    IF /\ DayOrMonthAt(s, d, ",")
       /\ SkipClass(s, SkipClass(s, d, DOMAIN DigitValue) + 1, Whitespace)
              > SkipClass(s, d, DOMAIN DigitValue) + 1
       /\ FourDigitsAt(s, SkipClass(s, SkipClass(s, d, DOMAIN DigitValue) + 1,
                                    Whitespace))
    THEN [day |-> SubSeq(s, d, SkipClass(s, d, DOMAIN DigitValue) - 1),
          year |-> SubSeq(s,
                          SkipClass(s, SkipClass(s, d, DOMAIN DigitValue) + 1,
                                    Whitespace),
                          SkipClass(s, SkipClass(s, d, DOMAIN DigitValue) + 1,
                                    Whitespace) + 3)]
    ELSE NoMatch

\* (\w+)\s+(\d{1,2}),\s+(\d{4}) matches at position b: the groups
MonthDayYearAt(s, b) ==
    IF /\ SkipClass(s, b, WordChars) > b
       /\ SkipClass(s, SkipClass(s, b, WordChars), Whitespace)
              > SkipClass(s, b, WordChars)
       /\ DayYearAt(s, SkipClass(s, SkipClass(s, b, WordChars), Whitespace))
              # NoMatch
    THEN [month_name |-> SubSeq(s, b, SkipClass(s, b, WordChars) - 1)]
             @@ DayYearAt(s, SkipClass(s, SkipClass(s, b, WordChars), Whitespace))
    ELSE NoMatch

\* r"Week of\s+(\w+)\s+(\d{1,2}),\s+(\d{4})" with re.IGNORECASE matches at
\* position i: the groups
WeekOfNamedAt(s, i) ==
    IF /\ LiteralAt(s, i, Week_of, TRUE)
       /\ SkipClass(s, i + Len(Week_of), Whitespace) > i + Len(Week_of)
    THEN MonthDayYearAt(s, SkipClass(s, i + Len(Week_of), Whitespace))
    ELSE NoMatch

\* (\d{1,2})/(\d{1,2})/(\d{4}) matches at position m: the groups
NumbersAt(s, m) ==
    IF /\ DayOrMonthAt(s, m, "/")
       /\ DayOrMonthAt(s, SkipClass(s, m, DOMAIN DigitValue) + 1, "/")
       /\ FourDigitsAt(s, SkipClass(s, SkipClass(s, m, DOMAIN DigitValue) + 1,
                                    DOMAIN DigitValue) + 1)
    THEN [month |-> SubSeq(s, m, SkipClass(s, m, DOMAIN DigitValue) - 1),
          day |-> SubSeq(s, SkipClass(s, m, DOMAIN DigitValue) + 1,
                         SkipClass(s, SkipClass(s, m, DOMAIN DigitValue) + 1,
                                   DOMAIN DigitValue) - 1),
          year |-> SubSeq(s,
                          SkipClass(s, SkipClass(s, m, DOMAIN DigitValue) + 1,
                                    DOMAIN DigitValue) + 1,
                          SkipClass(s, SkipClass(s, m, DOMAIN DigitValue) + 1,
                                    DOMAIN DigitValue) + 4)]
    ELSE NoMatch

\* r"Week of\s+(\d{1,2})/(\d{1,2})/(\d{4})" matches at position i: the groups
WeekOfNumbersAt(s, i) ==
    IF /\ LiteralAt(s, i, Week_of, FALSE)
       /\ SkipClass(s, i + Len(Week_of), Whitespace) > i + Len(Week_of)
    THEN NumbersAt(s, SkipClass(s, i + Len(Week_of), Whitespace))
    ELSE NoMatch

\* The groups of the first match of the named pattern in s, if any
first_named(s) ==
    LET starts == {i \in 1..Len(s) : WeekOfNamedAt(s, i) # NoMatch}
    IN  IF starts = {} THEN NoMatch ELSE WeekOfNamedAt(s, FirstOf(starts))

\* The groups of the first match of the numeric pattern in s, if any
first_numbers(s) ==
    LET starts == {i \in 1..Len(s) : WeekOfNumbersAt(s, i) # NoMatch}
    IN  IF starts = {} THEN NoMatch ELSE WeekOfNumbersAt(s, FirstOf(starts))

\* The second half of _parse_date: the numeric pattern, else today
date_from_numbers(numbers) ==
    IF numbers # NoMatch
    THEN date(DecimalValue(numbers.year), DecimalValue(numbers.month),
              DecimalValue(numbers.day))
    ELSE Value(Today)

\* _parse_date on the text searched, named and numbers being the first
\* matches of the two patterns in it: the date returned, or the ValueError
\* of date(...)
date_from_matches(named, numbers) ==
    IF named # NoMatch /\ lower(named.month_name) \in DOMAIN month_map
    THEN date(DecimalValue(named.year), month_map[lower(named.month_name)],
              DecimalValue(named.day))
    ELSE date_from_numbers(numbers)

\* The head of the page: the meta description, when the page has one
head_markup(response) ==
    IF response.meta_description = <<>> THEN <<>>
    ELSE <<"<meta name=\"description\" content=\"">> \o response.meta_description
             \o <<"\">">>

\* response.text: the markup of the page, the head, then in the body the
\* paragraphs before the rows
page_markup(response) ==
    head_markup(response) \o join([i \in 1..Len(response.texts) |->
             <<"<p>">> \o response.texts[i] \o <<"</p>">>], <<>>)
        \o join([i \in 1..Len(response.rows) |-> row_markup(response.rows[i])], <<>>)

\* BillboardSpider._parse_date
spider_parse_date(response) ==
    date_from_matches(first_named(page_markup(response)),
                      first_numbers(page_markup(response)))

\* The URL start_requests asks for
spider_start_url(name) == BASE_URL \o Get(CHART_URLS, name, CHART_URLS[hot_100])

\* The ChartPageItem parse yields once the entries are parsed, or the
\* exception that ends the callback.
ChartPageItem(response, name, chart_type, entries) ==
    IF spider_parse_date(response).status # "ok" THEN spider_parse_date(response)
    ELSE IF entries.status # "ok" THEN entries
    ELSE Value([provider |-> "billboard",
                chart_name |-> name,
                chart_title |-> Get(CHART_TITLES, name, name),
                chart_type |-> chart_type,
                description |-> _parse_description(response, name),
                url |-> response.url,
                published_date |-> spider_parse_date(response).value,
                entries |-> entries.value])

\* BillboardSpider.parse
spider_parse(response, name, cfg) ==
    IF name \in ALBUM_CHARTS
    THEN ChartPageItem(response, name, "album",
                       _parse_album_entries(response.rows, cfg))
    ELSE ChartPageItem(response, name, "single",
                       spider_parse_entries(response.rows, cfg))

\* The ChartEntry the pipeline builds from one raw entry
pipeline_entry(raw_entry) ==
    LET entry_type == Get(raw_entry, "entry_type", "song")
        artist == Get(raw_entry, "artist", <<>>)
        artists == Get(raw_entry, "artists",
                       IF artist # <<>> THEN <<artist>> ELSE <<>>)
        primary == IF artists # <<>> THEN artists[1] ELSE artist
        title == Get(raw_entry, "title", <<>>)
        image == Get(raw_entry, "image", <<>>)
        fields == [rank |-> Get(raw_entry, "rank", 0),
                   weeks_on_chart |-> Get(raw_entry, "weeks_on_chart", 0),
                   last_week |-> Get(raw_entry, "last_week", 0),
                   peak_position |-> Get(raw_entry, "peak_position", 0)]
    IN  IF entry_type = "album"
        THEN ChartEntry([song |-> None,
                         album |-> Album(title, primary, artists, image)] @@ fields)
        ELSE ChartEntry([song |-> Song(title, primary, artists, image),
                         album |-> None] @@ fields)

\* ChartAssemblyPipeline.process_item for a ChartPageItem: the entries are
\* built first, then the metadata, then item["published_date"] is read,
\* then the chart is built; the first failure ends the call.
process_item(item) ==
    LET chart_type == Get(item, "chart_type", "single")
        raw_entries == Get(item, "entries", <<>>)
        built == [i \in 1..Len(raw_entries) |-> pipeline_entry(raw_entries[i])]
        entries == [i \in 1..Len(built) |-> built[i].value]
        metadata == ChartMetadata(Get(item, "provider", <<>>),
                                  Get(item, "chart_title", <<>>),
                                  Get(item, "description", <<>>),
                                  Get(item, "url", <<>>), chart_type)
    IN  IF \E i \in 1..Len(built) : built[i].status # "ok"
        THEN Raised("ValidationError")
        ELSE IF metadata.status # "ok" THEN Raised("ValidationError")
        ELSE IF "published_date" \notin DOMAIN item THEN Raised("KeyError")
        ELSE LET chart == Chart(metadata.value, item.published_date,
                                sort_by_rank(entries), chart_type)
             IN  IF chart.status # "ok" THEN Raised("ValidationError")
                 ELSE Value(chart.value)

(***************************************************************************)
(* Scanning a page: the rows a page is made of                             *)
(***************************************************************************)
ArtistHref == <<"/music", "/artist/", "ann">>
ChartHref == <<"/charts", "/hot-100/">>

NoImage == [a \in {"data-lazy-src", "data-src", "data-original", "src"} |-> <<>>]

\* rank 1, artist in an artist link, lazy-loaded cover
row_one ==
    << Label(<<"1">>), Title(<<"S", "1">>),
       LinkedLabel(ArtistHref, <<"A", "n", "n">>),
       Img([NoImage EXCEPT !["data-lazy-src"] = <<"/", "lazyload-fallback", ".gif">>,
                           !["src"] = <<"http", "s://i/1.jpg">>]) >>

\* rank 2, padded rank label, two artists in a plain label
row_two ==
    << Label(<<" ", "2", "\n">>), Title(<<"S", "2">>),
       Label(<<"B", "o", " ", "&", " ", "C", "y">>) >>

\* rank 3, artist in a plain artist link
row_three ==
    << Label(<<"3">>), Title(<<"S", "3">>), Link(ArtistHref, <<"D", "e", "e">>) >>

\* the rank label is a status marker, no number in any label
row_new ==
    << Label(<<"N", "E", "W">>), Title(<<"S", "4">>),
       LinkedLabel(ArtistHref, <<"E", "v", "e">>) >>

\* the rank label is the number 0
row_zero ==
    << Label(<<"0">>), Title(<<"S", "5">>),
       LinkedLabel(ArtistHref, <<"F", "a", "y">>) >>

\* the rank label is a digit that int() rejects
row_superscript ==
    << Label(<<SUPERSCRIPT_TWO>>), Title(<<"S", "6">>),
       LinkedLabel(ArtistHref, <<"G", "u", "s">>) >>

\* a status marker first, the rank in the second label
row_late_rank ==
    << Label(<<"N", "E", "W">>), Label(<<"1">>), Title(<<"S", "7">>),
       LinkedLabel(ArtistHref, <<"H", "a", "l">>) >>

\* rank 2, no artist to be found
row_no_artist ==
    << Label(<<"2">>), Title(<<"S", "8">>), Link(ChartHref, <<"I", "d", "a">>) >>

RowSet ==
    { row_one, row_two, row_three, row_new, row_zero, row_superscript,
      row_late_rank, row_no_artist }

RECURSIVE SeqsUpTo(_, _)
\* The sequences over S of length at most n
SeqsUpTo(S, n) ==
    IF n = 0 THEN {<<>>}
    ELSE LET shorter == SeqsUpTo(S, n - 1)
         IN  shorter \cup {Append(q, x) : q \in shorter, x \in S}

\* The pages the server may answer with
ScanPages ==
    [http : {"ok"}, rows : SeqsUpTo(RowSet, MaxRows), meta_description : {<<>>},
     texts : {<<>>}]

ScanConfigs ==
    [include_images : BOOLEAN, max_chart_entries : 0..MaxEntries,
     fallback_to_default : {TRUE}]

\* The charts the spider is started for
SpiderCharts == {hot_100, billboard_200}

InitScan ==
    /\ pc = "page"
    /\ page \in ScanPages
    /\ config \in ScanConfigs
    /\ chart_name \in SpiderCharts
    /\ result = NoResult
    /\ warnings = <<>>
    /\ requests = <<>>
    /\ entry_args = NoArgs
    /\ artist_text = <<>>
    /\ NoDownload
    /\ NoRunSpider

\* The response Scrapy hands to the parse callback
Response(name) == page @@ [url |-> spider_start_url(name)]

\* BillboardSpider.start_requests: the Request for the chart page is yielded
\* to the engine
StartRequests ==
    /\ pc = "page"
    /\ requests' = Append(requests, spider_start_url(chart_name))
    /\ pc' = "requested"
    /\ UNCHANGED <<config, chart_name, page, warnings, result, entry_args,
                 artist_text, retry_vars, runner_vars>>

\* BillboardSpider.parse, the callback of the Request, called by the engine
\* with the response once the page is downloaded
SpiderParse ==
    /\ pc = "requested"
    /\ page.http = "ok"
    /\ result' = spider_parse(Response(chart_name), chart_name, config)
    /\ pc' = "parsed"
    /\ UNCHANGED <<config, chart_name, page, warnings, requests, entry_args,
                 artist_text, retry_vars, runner_vars>>

\* ChartAssemblyPipeline.process_item on the item the spider yielded
ProcessItem ==
    /\ pc = "parsed"
    /\ result.status = "ok"
    /\ result' = process_item(result.value)
    /\ pc' = "assembled"
    /\ UNCHANGED <<config, chart_name, page, warnings, requests, entry_args,
                 artist_text, retry_vars, runner_vars>>

\* The fields of ChartEntry declared Optional[...]
OptionalFields == {"song", "album"}

\* BaseModel.model_dump() of a Song or an Album: the dict of its fields
model_dump(m) == [k \in DOMAIN m \ {"model"} |-> m[k]]

\* ChartEntry.model_dump(): the dict of the fields, a nested model dumped, a
\* None field kept as None
entry_model_dump(e) ==
    [k \in DOMAIN e |->
        IF k \in OptionalFields
        THEN (IF e[k] = None THEN None ELSE model_dump(e[k]))
        ELSE e[k]]

\* A buggy serialization: None values are kept.
ChartEntry_to_dict_keeps_none(e) == entry_model_dump(e)

\* ChartEntry.to_dict: model_dump(exclude_none=True)
ChartEntry_to_dict(e) ==
    [k \in {f \in DOMAIN e : ~(f \in OptionalFields /\ e[f] = None)} |->
        entry_model_dump(e)[k]]

\* date.isoformat()
isoformat(d) == [isoformat |-> d]

\* Chart.to_dict
Chart_to_dict(chart) ==
    [metadata |-> chart.metadata,
     published_date |-> isoformat(chart.published_date),
     entries |-> [i \in 1..Len(chart.entries) |-> ChartEntry_to_dict(chart.entries[i])],
     chart_type |-> chart.chart_type]

\* chart.to_dict() on the chart the pipeline assembled
ChartToDict ==
    /\ pc = "assembled"
    /\ result.status = "ok"
    /\ result' = Value(Chart_to_dict(result.value))
    /\ pc' = "serialized"
    /\ UNCHANGED <<config, chart_name, page, warnings, requests, entry_args,
                   artist_text, retry_vars, runner_vars>>

\* BillboardProvider(config)._parse_entries(soup)
ProviderParseEntries ==
    /\ pc = "page"
    /\ result' = provider_parse_entries(page.rows, config)
    /\ pc' = "entries"
    /\ UNCHANGED <<config, chart_name, page, warnings, requests, entry_args,
                 artist_text, retry_vars, runner_vars>>

NextScan ==
    StartRequests \/ SpiderParse \/ ProcessItem \/ ChartToDict \/ ProviderParseEntries

SpecScan == InitScan /\ [][NextScan]_vars

\* The entry list an operation of the scan produced, when it produced one
ScanDone == pc \in {"parsed", "assembled", "entries"}
ScannedEntries ==
    IF pc = "entries" THEN result.value ELSE result.value.entries

Ranks(entries) == [i \in 1..Len(entries) |-> entries[i].rank]

\* C5: the entries of every list the scans and the assembly produce are in
\* non-decreasing order of rank, whatever the order of the rows on the page.
C5_SortedByRank ==
    (ScanDone /\ result.status = "ok") =>
        \A i, j \in 1..Len(ScannedEntries) :
            i < j => ScannedEntries[i].rank <= ScannedEntries[j].rank

\* C5 witness: a chart was assembled from a page whose rows stand in
\* descending order of rank.
C5_Witness ==
    /\ pc = "assembled"
    /\ result.status = "ok"
    /\ page.rows = <<row_three, row_two, row_one>>
    /\ Ranks(result.value.entries) = <<1, 2, 3>>

\* The row parser the operation that ran applies to each row
ParsedRow(row) ==
    IF pc = "entries" THEN provider_parse_row(row, config.include_images)
    ELSE IF chart_name \in ALBUM_CHARTS THEN _parse_album_row(row, config.include_images)
    ELSE _parse_single_row(row, config.include_images)

\* The entry list the operation that ran produces for other rows
RescanEntries(rows) ==
    IF pc = "entries" THEN provider_parse_entries(rows, config)
    ELSE IF chart_name \in ALBUM_CHARTS THEN _parse_album_entries(rows, config)
    ELSE spider_parse_entries(rows, config)

\* The title an entry carries, as a raw dict or as a ChartEntry
EntryTitle(e) ==
    IF "title" \in DOMAIN e THEN e.title
    ELSE IF e.song # None THEN e.song.title
    ELSE e.album.title

\* C6: with max_chart_entries set to k >= 1 the entry list has at most k
\* entries, for single and album charts; with the option unset the list has
\* one entry for every row that is accepted on its own.
C6_AtMostMaxEntries ==
    (ScanDone /\ result.status = "ok") =>
        /\ config.max_chart_entries # 0 =>
               Len(ScannedEntries) <= config.max_chart_entries
        /\ config.max_chart_entries = 0 =>
               Len(ScannedEntries) =
                   Len(SelectSeq(page.rows, LAMBDA r : ParsedRow(r).status = "ok"))

\* C6 witness: the album scan with a maximum of 1 kept one entry of a
\* page with three acceptable rows.
C6_Witness ==
    /\ pc = "parsed"
    /\ chart_name = billboard_200
    /\ config.max_chart_entries = 1
    /\ page.rows = <<row_three, row_one, row_two>>
    /\ result.status = "ok"
    /\ Len(result.value.entries) = 1

\* C7: a failure raised while one row is processed skips that row only:
\* the scan ends without raising and its entries are those of the page
\* without the failing rows.
C7_RowFailureSkipsRow ==
    pc \in {"parsed", "entries"} =>
        /\ result.status = "ok"
        /\ ScannedEntries =
               RescanEntries(SelectSeq(page.rows,
                                 LAMBDA r : ParsedRow(r).status # "raised")).value

\* The row has no pure-digit label text, or the first one is the number 0
NoRankToken(row) ==
    LET tokens == SelectSeq(LabelSpans(row), LAMBDA n : isdigit(strip(n.text)))
    IN  \/ tokens = <<>>
        \/ int(strip(tokens[1].text)) = [status |-> "ok", value |-> 0]

\* C8: a row without a pure-digit rank label, or whose rank label is 0,
\* never appears in the output and does not stop the scan: no entry has
\* rank 0 or the title of such a row, and the outcome is the outcome for
\* the page without these rows.
C8_RanklessRowExcluded ==
    ScanDone =>
        /\ result.status = "ok" =>
               \A i \in 1..Len(ScannedEntries) :
                   /\ ScannedEntries[i].rank >= 1
                   /\ \A k \in 1..Len(page.rows) :
                          NoRankToken(page.rows[k]) =>
                              EntryTitle(ScannedEntries[i]) # _extract_title(page.rows[k])
        /\ pc \in {"parsed", "entries"} =>
               LET rescan == RescanEntries(SelectSeq(page.rows,
                                               LAMBDA r : ~NoRankToken(r)))
               IN  /\ rescan.status = result.status
                   /\ result.status = "ok" => ScannedEntries = rescan.value

\* C8 witness: the scan went past a marker row and a rank-0 row and
\* emitted the row after them.
C8_Witness ==
    /\ pc = "parsed"
    /\ page.rows = <<row_new, row_zero, row_one>>
    /\ result.status = "ok"
    /\ Ranks(result.value.entries) = <<1>>

(***************************************************************************)
(* providers/billboard.py: get_latest                                      *)
(***************************************************************************)
\* soup.find_all(string=re.compile(r"Week of", re.IGNORECASE)): the text
\* nodes of the page that hold "Week of", in document order
week_of_texts(soup) ==
    SelectSeq(soup.texts \o join([i \in 1..Len(soup.rows) |-> text_nodes(soup.rows[i])],
                                 <<>>),
              LAMBDA t : \E i \in 1..Len(t) : LiteralAt(t, i, Week_of, TRUE))

\* BillboardProvider._parse_date: both patterns are looked for in the first
\* text node that holds "Week of"
provider_parse_date(soup) ==
    IF week_of_texts(soup) = <<>> THEN Value(Today)
    ELSE date_from_matches(first_named(strip(week_of_texts(soup)[1])),
                           first_numbers(strip(week_of_texts(soup)[1])))

(***************************************************************************)
(* providers/billboard.py: the session of _setup, with its retry strategy  *)
(***************************************************************************)
\* Retry(total=max_retries, backoff_factor=1,
\*       status_forcelist=[429, 500, 502, 503, 504])
backoff_factor == 1
status_forcelist == {429, 500, 502, 503, 504}

\* What the server does with one request: the connection fails, or the
\* server answers with a status and perhaps a Retry-After header (seconds)
ServerAnswers ==
    "ok" :> [status |-> 200, retry_after |-> <<>>]
    @@ "403" :> [status |-> 403, retry_after |-> <<>>]
    @@ "404" :> [status |-> 404, retry_after |-> <<>>]
    @@ "404 Retry-After: 5" :> [status |-> 404, retry_after |-> <<5>>]
    @@ "413" :> [status |-> 413, retry_after |-> <<>>]
    @@ "413 Retry-After: 5" :> [status |-> 413, retry_after |-> <<5>>]
    @@ "429" :> [status |-> 429, retry_after |-> <<>>]
    @@ "429 Retry-After: 0" :> [status |-> 429, retry_after |-> <<0>>]
    @@ "429 Retry-After: 7" :> [status |-> 429, retry_after |-> <<7>>]
    @@ "500" :> [status |-> 500, retry_after |-> <<>>]
    @@ "503" :> [status |-> 503, retry_after |-> <<>>]
    @@ "503 Retry-After: 7" :> [status |-> 503, retry_after |-> <<7>>]

\* What the server does with the k-th request for the page: served.failures
\* one by one, from then on served.http
Answer(served, k) ==
    IF k <= Len(Get(served, "failures", <<>>)) THEN served.failures[k]
    ELSE served.http

\* Retry.get_backoff_time after n failed attempts in a row: nothing after
\* the first, then backoff_factor * 2 ** (n - 1), at most 120 seconds
get_backoff_time(n) ==
    IF n <= 1 THEN 0
    ELSE IF backoff_factor * 2 ^ (n - 1) < 120 THEN backoff_factor * 2 ^ (n - 1)
    ELSE 120

\* Retry.is_retry for a GET: the status is in status_forcelist, or retries
\* are left, the response has a Retry-After header and its status is 413,
\* 429 or 503
is_retry(total, response) ==
    \/ response.status \in status_forcelist
    \/ /\ total # 0
       /\ response.retry_after # <<>>
       /\ response.status \in {413, 429, 503}

\* Retry.sleep: the Retry-After of the response when it has one above 0,
\* else the backoff
retry_sleep(response, n) ==
    IF response.retry_after # <<>> /\ response.retry_after[1] > 0
    THEN response.retry_after[1]
    ELSE get_backoff_time(n)

\* The request is sent again after a wait
RECURSIVE session_get(_, _, _, _)
sent_again(url, served, max_retries, retried, wait) ==
    LET rest == session_get(url, served, max_retries, retried + 1)
    IN  [requests |-> <<url>> \o rest.requests, slept |-> <<wait>> \o rest.slept,
         outcome |-> rest.outcome]

\* The fetch ends with this request
fetch_ends(url, outcome) == [requests |-> <<url>>, slept |-> <<>>, outcome |-> outcome]

\* self.session.get(url, ...) after `retried` retries: the requests sent,
\* the waits between them, and the status of the response returned or the
\* exception raised once max_retries retries were made (ConnectionError
\* when the last attempt got no response, RetryError when it got one).
session_get(url, served, max_retries, retried) ==
    LET answer == Answer(served, retried + 1)
        total == max_retries - retried
    IN  IF answer \notin DOMAIN ServerAnswers
        THEN IF total = 0 THEN fetch_ends(url, Raised("ConnectionError"))
             ELSE sent_again(url, served, max_retries, retried,
                             get_backoff_time(retried + 1))
        ELSE IF is_retry(total, ServerAnswers[answer])
        THEN IF total = 0 THEN fetch_ends(url, Raised("RetryError"))
             ELSE sent_again(url, served, max_retries, retried,
                             retry_sleep(ServerAnswers[answer], retried + 1))
        ELSE fetch_ends(url, Value(ServerAnswers[answer].status))

\* raise Exception(f"Failed to fetch Billboard chart: {str(e)}") from e
FetchFailed(cause) ==
    [status |-> "Exception", error |-> "Failed to fetch Billboard chart", cause |-> cause]

\* desc_map of get_latest
desc_map == FALLBACK_DESCRIPTIONS

\* The part of get_latest after soup = BeautifulSoup(...): the entries and
\* the date are parsed, the description is the page's or, when that is
\* empty, the one of the name normalized a second time.
chart_from_soup(name, url, published_date, entries, meta_desc, again, fetched) ==
    [result |->
         Value(Chart(ChartMetadata("billboard", name,
                                   IF meta_desc # <<>> THEN meta_desc
                                   ELSE Get(desc_map, again.value,
                                            <<"The ">> \o name
                                                \o <<" chart on Billboard">>),
                                   url.value, "single").value,
                     published_date, entries, "single").value),
     warnings |-> url.warned \o (IF meta_desc # <<>> THEN <<>> ELSE again.warned),
     requests |-> fetched.requests, slept |-> fetched.slept]

\* get_latest failing after the session was used
failed_after_fetch(cause, url, fetched) ==
    [result |-> FetchFailed(cause), warnings |-> url.warned,
     requests |-> fetched.requests, slept |-> fetched.slept]

\* get_latest from url = self._get_chart_url(chart_name) on: the session
\* gets the page, raise_for_status() raises on a status from 400 on, the
\* page is parsed.
latest_fetched(name, cfg, served, url, fetched) ==
    IF fetched.outcome.status # "ok"
    THEN failed_after_fetch(fetched.outcome.error, url, fetched)
    ELSE IF fetched.outcome.value >= 400
    THEN failed_after_fetch("HTTPError", url, fetched)
    ELSE IF provider_parse_date(served).status # "ok"
    THEN failed_after_fetch(provider_parse_date(served).error, url, fetched)
    ELSE chart_from_soup(name, url, provider_parse_date(served).value,
                         provider_parse_entries(served.rows, cfg).value,
                         strip(served.meta_description),
                         _normalize_chart_name(name, cfg), fetched)

latest_from_url(name, cfg, served, url) ==
    IF url.status # "ok"
    THEN [result |-> url, warnings |-> <<>>, requests |-> <<>>, slept |-> <<>>]
    ELSE latest_fetched(name, cfg, served, url,
                        session_get(url.value, served,
                                    Get(cfg, "max_retries", 3), 0))

\* BillboardProvider.get_latest: the value returned or the error raised,
\* with the warnings emitted and the URLs requested on the way.
get_latest(name, cfg, served) ==
    latest_from_url(name, cfg, served, _get_chart_url(name, cfg))

(***************************************************************************)
(* Calling the provider: the names a caller may pass                       *)
(***************************************************************************)
\* str.title(): a letter is upper case when it follows a non-letter
title_case(s) ==
    [i \in 1..Len(s) |->
        IF s[i] \in DOMAIN UpperMap /\ (i = 1 \/ s[i - 1] \notin DOMAIN UpperMap)
        THEN UpperMap[s[i]] ELSE s[i]]

\* every second character in upper case
mixed_case(s) ==
    [i \in 1..Len(s) |->
        IF s[i] \in DOMAIN UpperMap /\ i % 2 = 0 THEN UpperMap[s[i]] ELSE s[i]]

CaseVariants(s) == {s, upper(s), title_case(s), mixed_case(s)}

\* each hyphen kept, or written as a space or an underscore
RECURSIVE SeparatorVariants(_)
SeparatorVariants(s) ==
    IF s = <<>> THEN {<<>>}
    ELSE LET heads == IF Head(s) = "-" THEN {"-", " ", "_"} ELSE {Head(s)}
         IN  {<<h>> \o t : h \in heads, t \in SeparatorVariants(Tail(s))}

PaddedVariants(s) ==
    {s, <<" ">> \o s, s \o <<"\n">>, <<"\t", " ">> \o s \o <<" ">>}

\* The ways of writing the canonical identifier c
NameVariants(c) ==
    UNION {PaddedVariants(t) : t \in UNION {SeparatorVariants(u) : u \in CaseVariants(c)}}

CanonicalNames == {CHART_KEYS[i] : i \in 1..Len(CHART_KEYS)}

AliasNames ==
    UNION {{a, upper(a), <<" ">> \o title_case(a)} : a \in DOMAIN fallback_map}

UnknownNames ==
    { <<"i", "n", "v", "a", "l", "i", "d", "-", "c", "h", "a", "r", "t">>,
      <<"h", "o", "t", "1", "0", "0">>,
      <<"h", "o", "t", " ", " ", "1", "0", "0">>,
      <<"h", "o", "t", "-", "1", "0", "0", "s">>,
      <<"T", "o", "p", " ", "4", "0">>,
      <<"g", "l", "o", "b", "a", "l", "s">>,
      <<" ">>,
      <<>> }

\* Names with whitespace and letters outside ASCII
ForeignNames ==
    { <<"\r", "\n">> \o hot_100 \o <<"U+00A0">>,
      <<"B", "I", "L", "L", "B", "O", "A", "R", "D", "U+2003", "2", "0", "0">>,
      <<"U+212A", "i", "n", "g", " ", "1", "0", "0">> }

ChartNames ==
    UNION {NameVariants(c) : c \in CanonicalNames} \cup AliasNames \cup UnknownNames
        \cup ForeignNames

\* largest max_retries option
MaxRetries == 6

ProviderConfigs ==
    [include_images : BOOLEAN, max_chart_entries : {0, 1},
     fallback_to_default : BOOLEAN]

\* Configurations that set max_retries
RetryConfigs ==
    [include_images : {TRUE}, max_chart_entries : {0},
     fallback_to_default : {TRUE}, max_retries : {0, 1, MaxRetries}]

\* The answers of the server to the provider's request
LatestPages ==
    { [http |-> "ConnectionError", rows |-> <<>>, meta_description |-> <<>>,
       texts |-> <<>>],
      [http |-> "503", rows |-> <<>>, meta_description |-> <<>>, texts |-> <<>>],
      [http |-> "404", rows |-> <<>>, meta_description |-> <<>>, texts |-> <<>>],
      [http |-> "ok", failures |-> <<"ConnectionError", "500">>,
       rows |-> <<row_one>>, meta_description |-> <<>>, texts |-> <<>>],
      [http |-> "ok", failures |-> <<"503", "429 Retry-After: 7", "500">>,
       rows |-> <<row_one>>, meta_description |-> <<>>, texts |-> <<>>],
      [http |-> "ok", rows |-> <<>>, meta_description |-> <<>>, texts |-> <<>>],
      [http |-> "ok", rows |-> <<row_new, row_no_artist>>,
       meta_description |-> <<" ", "T", "o", "p", "\n">>, texts |-> <<>>],
      [http |-> "ok", rows |-> <<row_three, row_superscript, row_one>>,
       meta_description |-> <<>>,
       texts |-> << <<"W", "e", "e", "k", " ", "o", "f", " ", "J", "a", "n", "u", "a", "r", "y", " ", "2", "1", ",", " ", "2", "0", "2", "6">> >>] }

InitProvider ==
    /\ pc = "call"
    /\ \/ chart_name \in ChartNames /\ config \in ProviderConfigs
       \/ chart_name \in {hot_100, <<"T", "o", "p", " ", "4", "0">>}
              /\ config \in RetryConfigs
    /\ page \in LatestPages
    /\ result = NoResult
    /\ warnings = <<>>
    /\ requests = <<>>
    /\ entry_args = NoArgs
    /\ artist_text = <<>>
    /\ NoDownload
    /\ NoRunSpider

\* provider._normalize_chart_name(chart_name)
NormalizeChartName ==
    /\ pc = "call"
    /\ \E r \in {_normalize_chart_name(chart_name, config)} :
           /\ result' = r
           /\ warnings' = warnings \o (IF r.status = "ok" THEN r.warned ELSE <<>>)
    /\ pc' = "normalized"
    /\ UNCHANGED <<config, chart_name, page, requests, entry_args,
                 artist_text, retry_vars, runner_vars>>

\* provider._normalize_chart_name(r), r being the value the first call
\* returned
NormalizeAgain ==
    /\ pc = "normalized"
    /\ result.status = "ok"
    /\ chart_name' = result.value
    /\ \E r \in {_normalize_chart_name(result.value, config)} :
           /\ result' = r
           /\ warnings' = warnings \o (IF r.status = "ok" THEN r.warned ELSE <<>>)
    /\ pc' = "renormalized"
    /\ UNCHANGED <<config, page, requests, entry_args,
                 artist_text, retry_vars, runner_vars>>

\* provider.get_latest(chart_name), the server answering with page
GetLatest ==
    /\ pc = "call"
    /\ \E r \in {get_latest(chart_name, config, page)} :
           /\ result' = r.result
           /\ warnings' = warnings \o r.warnings
           /\ requests' = requests \o r.requests
           /\ slept' = slept \o r.slept
    /\ pc' = "latest"
    /\ UNCHANGED <<config, chart_name, page, entry_args,
                 artist_text, downloading, answered, runner_vars>>

\* raise NotImplementedError(...)
NotImplemented(provider) ==
    [status |-> "NotImplementedError", provider |-> provider]

\* The dates a caller may ask a chart for
ChartDates == {"2026-01-01", "1999-12-31"}

\* A buggy historical lookup: the latest chart is fetched instead.
get_chart_as_latest(name, chart_date, cfg, served) == get_latest(name, cfg, served)

\* BillboardProvider.get_chart: the error raised, with the warnings emitted
\* and the URLs requested on the way.
get_chart(name, chart_date, cfg, served) ==
    [result |-> NotImplemented("billboard"), warnings |-> <<>>, requests |-> <<>>,
     slept |-> <<>>]

\* SpotifyProvider.get_latest
spotify_get_latest(name) == NotImplemented("spotify")

\* SpotifyProvider.get_chart
spotify_get_chart(name, chart_date) == NotImplemented("spotify")

\* SpotifyProvider.list_available_charts
spotify_list_available_charts == NotImplemented("spotify")

\* ProviderCapability: a flag value is the set of its flags, | the union and
\* & the intersection
LATEST == {"LATEST"}
HISTORICAL == {"HISTORICAL"}
LIST_CHARTS == {"LIST_CHARTS"}
SEARCH == {"SEARCH"}

\* BillboardProvider.capabilities
billboard_capabilities == LATEST \cup LIST_CHARTS

\* SpotifyProvider.capabilities
spotify_capabilities == LATEST \cup LIST_CHARTS

\* BaseProvider.supports: bool(self.capabilities & capability)
supports(capabilities, capability) == (capabilities \cap capability) # {}

\* chart_info of list_available_charts, in the order of the dict
chart_info ==
    << <<hot_100, <<"Billboard Hot 100">>,
         <<"The week's most popular songs across all genres">> >>,
       <<billboard_200, <<"Billboard 200">>,
         <<"The week's most popular albums across all genres">> >>,
       <<global_200, <<"Global 200">>,
         <<"The week's most popular songs globally">> >>,
       <<artist_100, <<"Artist 100">>,
         <<"The week's most popular artists">> >>,
       <<streaming_songs, <<"Streaming Songs">>,
         <<"The most-streamed songs of the week">> >>,
       <<radio_songs, <<"Radio Songs">>,
         <<"The most-played songs on radio">> >>,
       <<digital_song_sales, <<"Digital Song Sales">>,
         <<"The best-selling digital songs">> >> >>

\* BillboardProvider.list_available_charts
list_available_charts ==
    Value([i \in 1..Len(chart_info) |->
              ChartMetadata("billboard", chart_info[i][2], chart_info[i][3],
                            BASE_URL \o Get(CHART_URLS, chart_info[i][1], <<>>),
                            "single").value])

\* provider.list_available_charts() on the Billboard provider
ListCharts ==
    /\ pc = "call"
    /\ result' = list_available_charts
    /\ pc' = "list"
    /\ UNCHANGED <<config, chart_name, page, warnings, requests, entry_args,
                 artist_text, retry_vars, runner_vars>>

\* provider.get_chart(chart_name, chart_date) on the Billboard provider
GetChart ==
    /\ pc = "call"
    /\ \E chart_date \in ChartDates :
           \E r \in {get_chart(chart_name, chart_date, config, page)} :
               /\ result' = r.result
               /\ warnings' = warnings \o r.warnings
               /\ requests' = requests \o r.requests
               /\ slept' = slept \o r.slept
    /\ pc' = "chart"
    /\ UNCHANGED <<config, chart_name, page, entry_args,
                 artist_text, downloading, answered, runner_vars>>

\* SpotifyProvider().get_latest(chart_name)
SpotifyGetLatest ==
    /\ pc = "call"
    /\ result' = spotify_get_latest(chart_name)
    /\ pc' = "spotify_latest"
    /\ UNCHANGED <<config, chart_name, page, warnings, requests, entry_args,
                 artist_text, retry_vars, runner_vars>>

\* SpotifyProvider().get_chart(chart_name, chart_date)
SpotifyGetChart ==
    /\ pc = "call"
    /\ \E chart_date \in ChartDates :
           result' = spotify_get_chart(chart_name, chart_date)
    /\ pc' = "spotify_chart"
    /\ UNCHANGED <<config, chart_name, page, warnings, requests, entry_args,
                 artist_text, retry_vars, runner_vars>>

\* SpotifyProvider().list_available_charts()
SpotifyListCharts ==
    /\ pc = "call"
    /\ result' = spotify_list_available_charts
    /\ pc' = "spotify_list"
    /\ UNCHANGED <<config, chart_name, page, warnings, requests, entry_args,
                 artist_text, retry_vars, runner_vars>>

NextProvider ==
    \/ NormalizeChartName
    \/ NormalizeAgain
    \/ GetLatest
    \/ GetChart
    \/ ListCharts
    \/ SpotifyGetLatest
    \/ SpotifyGetChart
    \/ SpotifyListCharts

SpecProvider == InitProvider /\ [][NextProvider]_vars

(***************************************************************************)
(* Properties of the resolution and of get_latest                          *)
(***************************************************************************)
\* No row of the page served yields an entry
NoParsableRow ==
    \A k \in 1..Len(page.rows) :
        provider_parse_row(page.rows[k], config.include_images).status # "ok"

\* C2: a page that yields no parsable row is a fetch failure whose
\* message says that no data was returned; get_latest never returns a chart
\* whose entry list is empty.
C2_NoEntriesIsFailure ==
    pc = "latest" =>
        /\ (result.status = "ok" => result.value.entries # <<>>)
        /\ (page.http = "ok" /\ NoParsableRow /\ requests # <<>>) =>
               /\ result.status = "Exception"
               /\ result.cause = "no data returned"

\* The name matches no canonical identifier, as it stands or hyphenated,
\* and no alias
Unmatched(name) ==
    LET name_lower == strip(lower(name))
    IN  /\ name_lower \notin CanonicalNames
        /\ replace(replace(name_lower, " ", "-"), "_", "-") \notin CanonicalNames
        /\ name_lower \notin DOMAIN fallback_map

\* C3: for a name that matches nothing, the resolution returns "hot-100"
\* with one warning when the fallback is enabled, and raises a ValueError
\* naming the input and listing the valid identifiers when it is disabled;
\* get_latest then raises that error without any request, and with the
\* fallback enabled it does not raise it and warns of the fallback.
C3_UnknownChartName ==
    Unmatched(chart_name) =>
        /\ (pc = "normalized" /\ config.fallback_to_default) =>
               /\ result.status = "ok"
               /\ result.value = hot_100
               /\ warnings = <<FallbackWarning(chart_name)>>
        /\ (pc \in {"normalized", "latest"} /\ ~config.fallback_to_default) =>
               /\ result.status = "ValueError"
               /\ result.chart = chart_name
               /\ result.available = CHART_KEYS
               /\ requests = <<>>
               /\ warnings = <<>>
        /\ (pc = "latest" /\ config.fallback_to_default) =>
               /\ result.status # "ValueError"
               /\ warnings # <<>>
               /\ \A i \in 1..Len(warnings) : warnings[i] = FallbackWarning(chart_name)

\* C3 witness: get_latest("invalid-chart") with the fallback disabled raised
\* the ValueError and requested nothing.
C3_Witness ==
    /\ pc = "latest"
    /\ chart_name = <<"i", "n", "v", "a", "l", "i", "d", "-", "c", "h", "a", "r", "t">>
    /\ ~config.fallback_to_default
    /\ result.status = "ValueError"
    /\ requests = <<>>

\* C4: a canonical identifier written in any letter case, with its hyphens
\* as spaces or underscores, and with whitespace around it, resolves to that
\* identifier without a warning, whatever the fallback setting.
C4_CanonicalVariants ==
    \A c \in CanonicalNames :
        (pc = "normalized" /\ chart_name \in NameVariants(c)) =>
            /\ result.status = "ok"
            /\ result.value = c
            /\ warnings = <<>>

\* C4 witness: " \tDIGITAL_SONG SALES " was resolved with the fallback
\* disabled.
C4_Witness ==
    /\ pc = "normalized"
    /\ chart_name = <<"\t", " ", "D", "I", "G", "I", "T", "A", "L", "_", "S", "O",
                      "N", "G", " ", "S", "A", "L", "E", "S", " ">>
    /\ ~config.fallback_to_default
    /\ result.status = "ok"
    /\ result.value = digital_song_sales

\* The chart the name passed to the provider resolves to
ResolvedChart == _normalize_chart_name(chart_name, config).value

\* The kind of the entity an entry carries
EntryKind(e) ==
    IF e.song # None /\ e.album = None THEN "single"
    ELSE IF e.album # None /\ e.song = None THEN "album"
    ELSE "mixed"

\* C9: the kind in the descriptor equals the kind of the chart, every entry
\* carries the entity of that kind, and the kind is album for
\* "billboard-200" and single for the other charts.
C9_ChartKindConsistent ==
    (pc = "latest" /\ result.status = "ok") =>
        /\ result.value.metadata.type = result.value.chart_type
        /\ \A i \in 1..Len(result.value.entries) :
               EntryKind(result.value.entries[i]) = result.value.chart_type
        /\ result.value.chart_type =
               (IF ResolvedChart \in ALBUM_CHARTS THEN "album" ELSE "single")

\* C10: what get_latest does after the resolution is done for the resolved
\* chart: the page requested is the page of that chart, the options are the
\* configured ones, and the descriptor holds its display title and its URL.
C10_ResolvedChartUsed ==
    (pc = "latest" /\ result.status = "ok") =>
        /\ requests = <<BASE_URL \o CHART_URLS[ResolvedChart]>>
        /\ result.value.metadata.url = BASE_URL \o CHART_URLS[ResolvedChart]
        /\ result.value.metadata.title = CHART_TITLES[ResolvedChart]
        /\ Len(result.value.entries) <=
               (IF config.max_chart_entries = 0 THEN Len(page.rows)
                ELSE config.max_chart_entries)
        /\ \A i \in 1..Len(result.value.entries) :
               ~config.include_images => result.value.entries[i].song.image = <<>>

\* C15: the historical lookup of the Billboard provider raises
\* NotImplementedError for every name and date, without a warning (the name
\* is not resolved) and without a request; the three chart operations of the
\* Spotify provider raise NotImplementedError.
C15_NotSupported ==
    /\ pc = "chart" =>
           /\ result = NotImplemented("billboard")
           /\ warnings = <<>>
           /\ requests = <<>>
    /\ pc \in {"spotify_latest", "spotify_chart", "spotify_list"} =>
           /\ result = NotImplemented("spotify")
           /\ requests = <<>>

\* C15 witness: get_chart was called with a name that resolves to nothing
\* while the fallback is disabled, and raised NotImplementedError.
C15_Witness ==
    /\ pc = "chart"
    /\ Unmatched(chart_name)
    /\ ~config.fallback_to_default
    /\ result.status = "NotImplementedError"

(***************************************************************************)
(* middlewares.py, settings.py: the retry middleware of the downloader     *)
(***************************************************************************)
\* settings.py
RETRY_TIMES == 3
RETRY_HTTP_CODES == {429, 500, 502, 503, 504}

\* largest RETRY_TIMES a settings override asks for
MaxRetryTimes == 6

\* The statuses the server may answer with
Statuses == {200, 403, 404} \cup RETRY_HTTP_CODES

\* delay = min(2 ** retry_count, 16)
backoff_delay(retry_count) ==
    IF 2 ^ retry_count < 16 THEN 2 ^ retry_count ELSE 16

\* The Response the middleware passes on
PassedOn(status) == [status |-> "Response", code |-> status]

\* RetryMiddleware._retry of Scrapy, which the middleware inherits: the
\* request again, its retry_times one higher, or None once max_retry_times
\* retries were made
_retry(req, max_retry_times) ==
    IF req.retry_times + 1 <= max_retry_times
    THEN [status |-> "Request",
          request |-> [req EXCEPT !.retry_times = req.retry_times + 1]]
    ELSE RowNone

\* self._retry(request, reason, spider) or response
retry_or_response(retried, status) ==
    IF retried.status = "Request" THEN retried ELSE PassedOn(status)

\* RetryWithBackoffMiddleware.process_response: the delay slept, if any, and
\* what is returned to the engine.
process_response(req, status, max_retry_times) ==
    IF status \in RETRY_HTTP_CODES
    THEN [slept |-> <<backoff_delay(req.retry_times)>>,
          returns |-> retry_or_response(_retry(req, max_retry_times), status)]
    ELSE [slept |-> <<>>, returns |-> PassedOn(status)]

\* The spider's first request is in the downloader; RETRY_TIMES is the one
\* of settings.py or of a settings override.
InitRetry ==
    /\ pc = "downloading"
    /\ config \in [RETRY_TIMES : 0..MaxRetryTimes]
    /\ chart_name \in SpiderCharts
    /\ downloading = [url |-> spider_start_url(chart_name), retry_times |-> 0]
    /\ answered = 0
    /\ slept = <<>>
    /\ page = NoPage
    /\ result = NoResult
    /\ warnings = <<>>
    /\ requests = <<>>
    /\ entry_args = NoArgs
    /\ artist_text = <<>>
    /\ NoRunSpider

\* The request is downloaded, the server answers with a status, and the
\* middleware processes the response.
ProcessResponse ==
    /\ pc = "downloading"
    /\ requests' = Append(requests, downloading.url)
    /\ \E status \in Statuses :
           /\ answered' = status
           /\ \E out \in {process_response(downloading, status, config.RETRY_TIMES)} :
                  /\ slept' = slept \o out.slept
                  /\ IF out.returns.status = "Request"
                     THEN /\ downloading' = out.returns.request
                          /\ pc' = "downloading"
                          /\ result' = result
                     ELSE /\ downloading' = downloading
                          /\ pc' = "delivered"
                          /\ result' = out.returns
    /\ UNCHANGED <<config, chart_name, page, warnings, entry_args, artist_text,
                   runner_vars>>

\* The download ends without a response (timeout, connection refused or
\* lost): RetryMiddleware.process_exception of Scrapy, which the middleware
\* inherits, retries at once while retries are left; after that the
\* failure goes to the engine and parse is not called.
ProcessException ==
    /\ pc = "downloading"
    /\ requests' = Append(requests, downloading.url)
    /\ answered' = 0
    /\ \E retried \in {_retry(downloading, config.RETRY_TIMES)} :
           IF retried.status = "Request"
           THEN /\ downloading' = retried.request
                /\ pc' = "downloading"
                /\ result' = result
           ELSE /\ downloading' = downloading
                /\ pc' = "failed"
                /\ result' = Raised("DownloadError")
    /\ UNCHANGED <<config, chart_name, page, warnings, entry_args, artist_text,
                   slept, runner_vars>>

NextRetry == ProcessResponse \/ ProcessException

SpecRetry == InitRetry /\ [][NextRetry]_vars

\* The answer of the server to the i-th request of get_latest is a response
\* with one of the statuses 429, 500, 502, 503, 504
RetryableAnswer(i) ==
    /\ Answer(page, i) \in DOMAIN ServerAnswers
    /\ ServerAnswers[Answer(page, i)].status \in {429, 500, 502, 503, 504}

\* C13: a page fetch is retried only after a response whose status is 429,
\* 500, 502, 503 or 504; any other response is passed on at once, without a
\* delay and without a retry; and one fetch makes at most max_retries
\* retries (3 unless configured).
C13_RetriedOnlyAfterRetryableStatus ==
    (pc = "latest" /\ requests # <<>>) =>
        /\ \A i \in 2..Len(requests) : RetryableAnswer(i - 1)
        /\ (Answer(page, 1) \in DOMAIN ServerAnswers /\ ~RetryableAnswer(1)) =>
               /\ Len(requests) = 1
               /\ slept = <<>>
        /\ Len(requests) <= Get(config, "max_retries", 3) + 1

\* C14: the delay before the retry of a request already retried r times is
\* min(2^r, 16): the first delay is 1, each further delay is twice the one
\* before until 16 is reached, no delay is above 16 and the delays never
\* decrease.
C14_BackoffDoublesCapped ==
    \A i \in 1..Len(slept) :
        /\ slept[i] = (IF 2 ^ (i - 1) <= 16 THEN 2 ^ (i - 1) ELSE 16)
        /\ slept[i] <= 16
        /\ i > 1 => /\ slept[i - 1] <= slept[i]
                    /\ slept[i] = (IF slept[i - 1] < 16 THEN 2 * slept[i - 1] ELSE 16)

\* C16: in the serialized form of a chart every entry holds exactly one of
\* the keys "song" and "album", and the key it holds maps to the dict of the
\* entity, not to None.
C16_SerializedEntryHasOneKey ==
    pc = "serialized" =>
        \A i \in 1..Len(result.value.entries) :
            LET d == result.value.entries[i]
            IN  /\ ("song" \in DOMAIN d) # ("album" \in DOMAIN d)
                /\ \A k \in DOMAIN d \cap {"song", "album"} :
                       "title" \in DOMAIN d[k]
                /\ {"rank", "weeks_on_chart", "last_week", "peak_position"}
                       \subseteq DOMAIN d

\* C16 witness: an album chart with two entries was serialized, each entry
\* with the key "album" and without the key "song".
C16_Witness ==
    /\ pc = "serialized"
    /\ chart_name = billboard_200
    /\ Len(result.value.entries) = 2
    /\ \A i \in 1..2 : /\ "album" \in DOMAIN result.value.entries[i]
                       /\ "song" \notin DOMAIN result.value.entries[i]

(***************************************************************************)
(* spiders/billboard.py: from the artist string to the artist list         *)
(***************************************************************************)
\* longest artist string drawn from the alphabet
MaxArtistLen == 4

ArtistAlphabet == {"A", "b", " ", "&", ","}

\* The artist strings a row may resolve to: never empty
ArtistTexts ==
    (SeqsUpTo(ArtistAlphabet, MaxArtistLen) \ {<<>>})
        \cup { <<"A", "r", "t", "i", "s", "t", " ", "X", " ", "&", " ",
                 "A", "r", "t", "i", "s", "t", " ", "Y">>,
               <<"A", "r", "t", "i", "s", "t", " ", "A", ",", " ",
                 "A", "r", "t", "i", "s", "t", " ", "B">>,
               <<"S", "o", "l", "o", " ", "A", "r", "t", "i", "s", "t">> }

InitSplit ==
    /\ pc = "artist"
    /\ artist_text \in ArtistTexts
    /\ config = NoConfig
    /\ chart_name = <<>>
    /\ page = NoPage
    /\ result = NoResult
    /\ warnings = <<>>
    /\ requests = <<>>
    /\ entry_args = NoArgs
    /\ NoDownload
    /\ NoRunSpider

\* _parse_single_row and _parse_album_row from
\* artists = self._split_artists(artist) on, for a row of rank 1 and without
\* images
SplitArtists ==
    /\ pc = "artist"
    /\ \E entry_type \in {"song", "album"} :
           result' = RowDict(1, <<"T">>, artist_text, <<>>, FALSE, entry_type)
    /\ pc' = "split"
    /\ UNCHANGED <<config, chart_name, page, warnings, requests, entry_args,
                   artist_text, retry_vars, runner_vars>>

NextSplit == SplitArtists

SpecSplit == InitSplit /\ [][NextSplit]_vars

\* The separator the artist string is split on, "" when there is none
SeparatorOf(text) ==
    IF \E i \in 1..Len(text) : text[i] = "&" THEN "&"
    ELSE IF \E i \in 1..Len(text) : text[i] = "," THEN ","
    ELSE ""

\* The position of the i-th occurrence of sep in text; 0 before the first
\* and Len(text) + 1 after the last
Occurrence(text, sep, i) ==
    LET occ == {k \in 1..Len(text) : text[k] = sep}
    IN  IF i = 0 THEN 0
        ELSE IF i > Cardinality(occ) THEN Len(text) + 1
        ELSE CHOOSE k \in occ : Cardinality({j \in occ : j < k}) = i - 1

\* C17: the artist list is the artist string split on "&" when it holds
\* one, else on "," when it holds one, else the list of the string alone;
\* the i-th element is the trimmed text between the separators i-1 and i,
\* and the primary artist is the first element.
C17_ArtistListSplit ==
    pc = "split" =>
        LET sep == SeparatorOf(artist_text)
            n == Cardinality({k \in 1..Len(artist_text) : artist_text[k] = sep})
        IN  /\ sep = "" => result.artists = <<artist_text>>
            /\ sep # "" =>
                   /\ Len(result.artists) = n + 1
                   /\ \A i \in 1..(n + 1) :
                          result.artists[i] =
                              strip(SubSeq(artist_text,
                                           Occurrence(artist_text, sep, i - 1) + 1,
                                           Occurrence(artist_text, sep, i) - 1))
            /\ result.artist = result.artists[1]

\* C17 witness: "Artist X & Artist Y" gave the list of "Artist X" and
\* "Artist Y" with the primary artist "Artist X".
C17_Witness ==
    /\ pc = "split"
    /\ artist_text = <<"A", "r", "t", "i", "s", "t", " ", "X", " ", "&", " ",
                       "A", "r", "t", "i", "s", "t", " ", "Y">>
    /\ result.artists = << <<"A", "r", "t", "i", "s", "t", " ", "X">>,
                           <<"A", "r", "t", "i", "s", "t", " ", "Y">> >>
    /\ result.artist = <<"A", "r", "t", "i", "s", "t", " ", "X">>

\* The image an entry carries, as a raw dict or as a ChartEntry
EntryImage(e) ==
    IF "image" \in DOMAIN e THEN e.image
    ELSE IF e.song # None THEN e.song.image
    ELSE e.album.image

\* C18: with include_images false the image of every entry the scans and
\* the assembly produce is the empty string, whatever the rows hold.
C18_NoImagesWhenDisabled ==
    (ScanDone /\ result.status = "ok" /\ ~config.include_images) =>
        \A i \in 1..Len(ScannedEntries) : EntryImage(ScannedEntries[i]) = <<>>

\* C18 witness: the album scan, images disabled, emitted the row that
\* holds a usable cover image, with an empty image.
C18_Witness ==
    /\ pc = "parsed"
    /\ chart_name = billboard_200
    /\ ~config.include_images
    /\ page.rows = <<row_one>>
    /\ spider_extract_image(row_one) # <<>>
    /\ result.status = "ok"
    /\ Len(result.value.entries) = 1
    /\ result.value.entries[1].image = <<>>

(***************************************************************************)
(* pipelines.py: assembly of any raw records                               *)
(***************************************************************************)
\* raw records in one item
MaxRawEntries == 2

\* A raw record as the spider emits it
RawSong ==
    [rank |-> 1, title |-> <<"S", "1">>, artist |-> <<"A", "n", "n">>,
     artists |-> << <<"A", "n", "n">> >>, image |-> <<>>, weeks_on_chart |-> 0,
     last_week |-> 0, peak_position |-> 1, entry_type |-> "song"]

\* The dict d without the key k
Without(d, k) == [f \in DOMAIN d \ {k} |-> d[f]]

\* The raw records handed to assembly: well-formed ones, and ones with a
\* missing, zero or negative rank or with a negative counter
RawEntries ==
    { RawSong,
      [RawSong EXCEPT !.rank = 2, !.entry_type = "album"],
      [RawSong EXCEPT !.rank = 3, !.weeks_on_chart = 1, !.last_week = 1],
      Without(RawSong, "entry_type"),
      Without(RawSong, "rank"),
      [RawSong EXCEPT !.rank = 0],
      [RawSong EXCEPT !.rank = -1],
      [RawSong EXCEPT !.weeks_on_chart = -1],
      [RawSong EXCEPT !.last_week = -1],
      [RawSong EXCEPT !.peak_position = -1],
      Without(Without(Without(RawSong, "weeks_on_chart"), "last_week"),
              "peak_position") }

\* The items as the spider yields them
FullItems ==
    { [provider |-> "billboard", chart_name |-> hot_100,
       chart_title |-> CHART_TITLES[hot_100], chart_type |-> "single",
       description |-> FALLBACK_DESCRIPTIONS[hot_100],
       url |-> spider_start_url(hot_100), published_date |-> Today,
       entries |-> entries] : entries \in SeqsUpTo(RawEntries, MaxRawEntries) }

\* The items handed to the pipeline: the spider's, and ones with another
\* chart_type or without one of the keys chart_type, entries and
\* published_date
RawItems ==
    FullItems
        \cup { [item EXCEPT !.chart_type = type] :
                   item \in FullItems, type \in {"album", "ep"} }
        \cup { Without(item, key) :
                   item \in FullItems,
                   key \in {"chart_type", "entries", "published_date"} }

InitAssembly ==
    /\ pc = "parsed"
    /\ \E item \in RawItems : result = Value(item)
    /\ chart_name = hot_100
    /\ config = NoConfig
    /\ page = NoPage
    /\ warnings = <<>>
    /\ requests = <<>>
    /\ entry_args = NoArgs
    /\ artist_text = <<>>
    /\ NoDownload
    /\ NoRunSpider

NextAssembly == ProcessItem

SpecAssembly == InitAssembly /\ [][NextAssembly]_vars

\* C19: every entry of an assembled chart has a rank of at least 1 and
\* weeks_on_chart, last_week and peak_position of at least 0, whatever raw
\* records were handed to assembly.
C19_AssembledEntriesInRange ==
    (pc = "assembled" /\ result.status = "ok") =>
        \A i \in 1..Len(result.value.entries) :
            /\ result.value.entries[i].rank >= 1
            /\ result.value.entries[i].weeks_on_chart >= 0
            /\ result.value.entries[i].last_week >= 0
            /\ result.value.entries[i].peak_position >= 0

(***************************************************************************)
(* runner.py: run_spider and the worker process it spawns                  *)
(***************************************************************************)
\* run_spider calls under way at the same time
NumCalls == 2
\* items a crawl may collect
MaxItems == 2
\* units of bytes the pipe of a queue holds before the write of the feeder
\* thread blocks
PipeCapacity == 2
\* units of bytes the pickle of one item may add to the message; an item of
\* a few bytes adds none
MaxItemSize == 2

Calls == 1..NumCalls

\* ctx.Queue(): a queue no process has touched
EmptyQueue == [pipe |-> <<>>, put_by |-> <<>>, got_by |-> <<>>]

\* A buggy allocation: every call uses the first queue.
NewQueue_shared(qs) == 1

\* result_queue = ctx.Queue(): the queue created is a new one
NewQueue(qs) == Len(qs) + 1

\* The lists of items the crawl of a spider started with kwargs may collect,
\* each item with the size of its pickle
CrawlResults(kwargs) ==
    UNION { { [i \in 1..n |-> [chart_name |-> kwargs.chart_name, item |-> i,
                               size |-> sizes[i]]] :
                  sizes \in [1..n -> 0..MaxItemSize] } : n \in 0..MaxItems }

RECURSIVE PickledSize(_)
\* The size of pickle.dumps(collected) in units: one for the list, and for
\* each item the units its bytes add
PickledSize(collected) ==
    IF collected = <<>> THEN 1
    ELSE PickledSize(Tail(collected)) + Head(collected).size

\* The pickled list as the feeder thread writes it to the pipe, unit by unit
Message(collected) ==
    [i \in 1..PickledSize(collected) |->
        [message |-> collected, last |-> i = PickledSize(collected)]]

\* A buggy read: get() is called whatever empty() says.
should_get_always(q) == TRUE

\* if not result_queue.empty()
should_get(q) == q.pipe # <<>>

\* A whole message is in the pipe, so that get() returns
MessageReady(q) == \E k \in 1..Len(q.pipe) : q.pipe[k].last

\* The pipe after get() took the first message
AfterGet(q) ==
    LET k == CHOOSE j \in 1..Len(q.pipe) :
                 q.pipe[j].last /\ \A i \in 1..(j - 1) : ~q.pipe[i].last
    IN  SubSeq(q.pipe, k + 1, Len(q.pipe))

InitRunner ==
    /\ pc = "runner"
    /\ caller \in [Calls -> [pc : {"idle"}, kwargs : [chart_name : SpiderCharts],
                             queue : {0}, result : {<<>>}]]
    /\ worker = [c \in Calls |-> [pc |-> "none", queue |-> 0, collected |-> <<>>,
                                  buffer |-> <<>>, exitcode |-> 0]]
    /\ queues = <<>>
    /\ config = NoConfig
    /\ chart_name = <<>>
    /\ page = NoPage
    /\ result = NoResult
    /\ warnings = <<>>
    /\ requests = <<>>
    /\ entry_args = NoArgs
    /\ artist_text = <<>>
    /\ NoDownload

\* run_spider up to proc.start(): a queue is created and the worker spawned
RunSpiderStart(c) ==
    /\ caller[c].pc = "idle"
    /\ \E q \in {NewQueue(queues)} :
           /\ caller' = [caller EXCEPT ![c] = [@ EXCEPT !.pc = "joining", !.queue = q]]
           /\ worker' = [worker EXCEPT ![c] = [@ EXCEPT !.pc = "crawling", !.queue = q]]
    /\ queues' = Append(queues, EmptyQueue)
    /\ UNCHANGED <<pc, config, chart_name, page, warnings, requests, result,
                   entry_args, artist_text, retry_vars>>

\* _run_spider_in_process: the crawl ends and result_queue.put(collected)
\* hands the list to the feeder thread
WorkerCrawl(c) ==
    /\ worker[c].pc = "crawling"
    /\ \E collected \in CrawlResults(caller[c].kwargs) :
           worker' = [worker EXCEPT ![c] = [@ EXCEPT !.pc = "feeding",
                                                     !.collected = collected,
                                                     !.buffer = Message(collected)]]
    /\ queues' = [queues EXCEPT ![worker[c].queue] =
                      [@ EXCEPT !.put_by = Append(@, c)]]
    /\ UNCHANGED <<pc, config, chart_name, page, warnings, requests, result,
                   entry_args, artist_text, retry_vars, caller>>

\* The worker dies during the crawl, before result_queue.put
WorkerCrash(c) ==
    /\ worker[c].pc = "crawling"
    /\ worker' = [worker EXCEPT ![c] = [@ EXCEPT !.pc = "exited", !.exitcode = 1]]
    /\ UNCHANGED <<pc, config, chart_name, page, warnings, requests, result,
                   entry_args, artist_text, retry_vars, caller, queues>>

\* The feeder thread of the worker writes the next unit to the pipe, which
\* it can do while the pipe is not full
FeederWrite(c) ==
    /\ worker[c].pc = "feeding"
    /\ worker[c].buffer # <<>>
    /\ Len(queues[worker[c].queue].pipe) < PipeCapacity
    /\ queues' = [queues EXCEPT ![worker[c].queue] =
                      [@ EXCEPT !.pipe = Append(@, Head(worker[c].buffer))]]
    /\ worker' = [worker EXCEPT ![c] = [@ EXCEPT !.buffer = Tail(@)]]
    /\ UNCHANGED <<pc, config, chart_name, page, warnings, requests, result,
                   entry_args, artist_text, retry_vars, caller>>

\* The worker exits: at exit it waits for its feeder thread, which ends
\* once the whole message is in the pipe
WorkerExit(c) ==
    /\ worker[c].pc = "feeding"
    /\ worker[c].buffer = <<>>
    /\ worker' = [worker EXCEPT ![c] = [@ EXCEPT !.pc = "exited"]]
    /\ UNCHANGED <<pc, config, chart_name, page, warnings, requests, result,
                   entry_args, artist_text, retry_vars, caller, queues>>

\* proc.join() returns: the worker has terminated
Join(c) ==
    /\ caller[c].pc = "joining"
    /\ worker[c].pc = "exited"
    /\ caller' = [caller EXCEPT ![c] = [@ EXCEPT !.pc = "joined"]]
    /\ UNCHANGED <<pc, config, chart_name, page, warnings, requests, result,
                   entry_args, artist_text, retry_vars, worker, queues>>

\* if not result_queue.empty(): return result_queue.get()
\* return []
Return(c) ==
    /\ caller[c].pc = "joined"
    /\ IF should_get(queues[caller[c].queue])
       THEN /\ MessageReady(queues[caller[c].queue])
            /\ caller' = [caller EXCEPT ![c] =
                   [@ EXCEPT !.pc = "returned",
                             !.result = queues[caller[c].queue].pipe[1].message]]
            /\ queues' = [queues EXCEPT ![caller[c].queue] =
                   [@ EXCEPT !.pipe = AfterGet(queues[caller[c].queue]),
                             !.got_by = Append(@, c)]]
       ELSE /\ caller' = [caller EXCEPT ![c] =
                   [@ EXCEPT !.pc = "returned", !.result = <<>>]]
            /\ queues' = queues
    /\ UNCHANGED <<pc, config, chart_name, page, warnings, requests, result,
                   entry_args, artist_text, retry_vars, worker>>

NextRunner ==
    \E c \in Calls :
        \/ RunSpiderStart(c)
        \/ WorkerCrawl(c)
        \/ WorkerCrash(c)
        \/ FeederWrite(c)
        \/ WorkerExit(c)
        \/ Join(c)
        \/ Return(c)

SpecRunner == InitRunner /\ [][NextRunner]_vars

\* Every process and thread that can take a step takes one in the end; a
\* caller need not call and a worker need not crash.
RunnerFairness ==
    \A c \in Calls :
        /\ WF_vars(WorkerCrawl(c))
        /\ WF_vars(FeederWrite(c))
        /\ WF_vars(WorkerExit(c))
        /\ WF_vars(Join(c))
        /\ WF_vars(Return(c))

SpecRunnerFair == SpecRunner /\ RunnerFairness

\* C11: every run_spider call that has started its worker returns in the
\* end, whatever the size of the list the worker puts on the queue, and
\* when it has returned its worker has terminated and was joined.
C11_RunSpiderReturns ==
    \A c \in Calls :
        (caller[c].pc = "joining") ~>
            (caller[c].pc = "returned" /\ worker[c].pc = "exited")

\* C12: concurrent calls have distinct queues, the worker of a call holds
\* the queue of its call, a queue is written at most once and only by the
\* worker of its call, read at most once and only by its caller, and a call
\* that returned returns the list its own worker collected (nothing when
\* the worker put nothing).
C12_CallsAreIsolated ==
    /\ \A c, d \in Calls :
           (c # d /\ caller[c].pc # "idle" /\ caller[d].pc # "idle") =>
               caller[c].queue # caller[d].queue
    /\ \A c \in Calls :
           caller[c].pc # "idle" =>
               /\ worker[c].queue = caller[c].queue
               /\ queues[caller[c].queue].put_by \in {<<>>, <<c>>}
               /\ queues[caller[c].queue].got_by \in {<<>>, <<c>>}
    /\ \A c \in Calls :
           caller[c].pc = "returned" =>
               /\ caller[c].result = worker[c].collected
               /\ \A i \in 1..Len(caller[c].result) :
                      caller[c].result[i].chart_name = caller[c].kwargs.chart_name

\* C12 witness: two calls for different charts ran at the same time, and
\* both returned the one item of their own chart.
C12_Witness ==
    /\ pc = "runner"
    /\ caller[1].kwargs.chart_name = hot_100
    /\ caller[2].kwargs.chart_name = billboard_200
    /\ \A c \in Calls :
           /\ caller[c].pc = "returned"
           /\ Len(caller[c].result) = 1
           /\ caller[c].result[1].chart_name = caller[c].kwargs.chart_name
    /\ queues[1].got_by # queues[2].got_by

\* C20: when the worker of a call has terminated without putting a result
\* on the queue, the call returns in the end, and what it returns is the
\* empty list.
C20_EmptyQueueReturnsNoData ==
    \A c \in Calls :
        (worker[c].pc = "exited" /\ queues[worker[c].queue].put_by = <<>>) ~>
            (caller[c].pc = "returned" /\ caller[c].result = <<>>)

\* C20 witness: the worker of the first call crashed during the crawl and
\* the call returned the empty list after the join.
C20_Witness ==
    /\ pc = "runner"
    /\ worker[1].pc = "exited"
    /\ worker[1].exitcode = 1
    /\ queues[1].put_by = <<>>
    /\ caller[1].pc = "returned"
    /\ caller[1].result = <<>>

(***************************************************************************)
(* Order and number of the entries of a scan                               *)
(***************************************************************************)
\* The entries of the operation that ran, in the order in which the loop
\* over the rows appended them (the order of the item for the assembly)
DiscoveredEntries ==
    IF pc = "entries"
    THEN provider_scan_rows(
             [i \in 1..Len(page.rows) |-> ParsedRow(page.rows[i])],
             config.max_chart_entries, <<>>)
    ELSE IF pc = "parsed"
    THEN spider_scan_rows(
             [i \in 1..Len(page.rows) |-> ParsedRow(page.rows[i])],
             config.max_chart_entries, <<>>).value
    ELSE RescanEntries(page.rows).value

\* Rank and title of the entries of the given rank, in their order
OfRank(entries, r) ==
    LET same == SelectSeq(entries, LAMBDA e : e.rank = r)
    IN  [i \in 1..Len(same) |-> EntryTitle(same[i])]

\* C21: the sort by rank is stable and drops nothing: the sorted list is as
\* long as the list of the entries discovered, and the entries of one rank
\* stand in it in the order in which they were discovered.
C21_StableSortKeepsTies ==
    (ScanDone /\ result.status = "ok") =>
        /\ Len(ScannedEntries) = Len(DiscoveredEntries)
        /\ \A r \in {DiscoveredEntries[i].rank : i \in 1..Len(DiscoveredEntries)}
                      \cup {ScannedEntries[i].rank : i \in 1..Len(ScannedEntries)} :
               OfRank(ScannedEntries, r) = OfRank(DiscoveredEntries, r)

\* C21 witness: two rows of rank 1 stood behind a row of rank 2; both are
\* in the chart assembled, before the row of rank 2, in their page order.
C21_Witness ==
    /\ pc = "assembled"
    /\ result.status = "ok"
    /\ page.rows = <<row_two, row_late_rank, row_one>>
    /\ Ranks(result.value.entries) = <<1, 1, 2>>
    /\ OfRank(result.value.entries, 1) = << <<"S", "7">>, <<"S", "1">> >>

(***************************************************************************)
(* Extraction from one row: the rows a page may hold                       *)
(***************************************************************************)
\* elements of a row besides the rank label, the title and the artist
MaxExtras == 2

RowTitle == <<"A", "b", "e">>

\* a label text of 150 characters
LongText == [i \in 1..150 |-> "X"]

\* Links and labels an artist may be looked for in
ArtistElements ==
    { Link(ArtistHref, <<"A", "b", "e">>),
      Label(<<"U+00C9", "d", "i", "t", "h">>),
      Link(ArtistHref, <<" ", "B", "o", "b", "\n">>),
      Link(ArtistHref, <<"C", "y">>),
      Link(ArtistHref, <<" ">>),
      Link(ChartHref, <<"D", "e", "e">>),
      LinkedLabel(ArtistHref, <<"E", "v", "e">>),
      LinkedLabel(ChartHref, <<"F", "a", "y">>),
      LinkedLabel(ChartHref, <<"g", "u", "s">>),
      Label(<<"H", "a", "l">>),
      Label(<<"i", "d", "a">>),
      Label(<<"j", "&", "k">>),
      Label(<<"&", " ", "C", "o">>),
      Label(<<"n", "e", "w">>),
      Label(<<"A", "b", "e">>),
      Label(<<"l", "o", "n", "g", "e", "r", " ", "n", "a", "m", "e">>),
      Label(<<"O", "K">>),
      Label(LongText),
      Label(<<"4", "2">>),
      Label(<<"m", " ", "\n", " ", "n", ",", "o">>) }

\* Texts that hold, or nearly hold, a weeks, last-week or peak figure
StatElements ==
    { Span(<<"3", " ", "w", "e", "e", "k", "s">>),
      Span(<<"1", " ", "W", "E", "E", "K">>),
      Span(<<"T", "o", "p", " ", "9", ":", " ", "4", " ", " ", "w", "e", "e", "k", "s">>),
      Span(<<"3", "w", "e", "e", "k", "s">>),
      Span(<<"3", "\r", "\n", "w", "e", "e", "k", "s">>),
      Span(<<"L", "W", ":", "U+00A0", "U+0663">>),
      Label(<<"L", "W">>),
      Label(<<"7">>),
      Label(<<"-">>),
      Span(<<"L", "W", ":", " ", "3">>),
      Span(<<"P", "e", "a", "k", ":", " ", "1">>),
      Span(<<"P", "E", "A", "K">>),
      Span(<<"P", "e", "a", "k", " ", "a", "t", " ", "5">>) }

\* Rows of rank 1 with a title, the artist to be found among the extras
ArtistRows ==
    { <<Label(<<"1">>), Title(RowTitle)>> \o extras :
          extras \in SeqsUpTo(ArtistElements, MaxExtras) }

\* Rows of rank 2 with a title and a linked artist, figures among the extras
StatRows ==
    { <<Label(<<"2">>), Title(<<"S", "2">>), Link(ArtistHref, <<"B", "o", "b">>)>>
          \o extras : extras \in SeqsUpTo(StatElements, MaxExtras) }

\* Rows without a title text
UntitledRows ==
    { <<Label(<<"1">>), Link(ArtistHref, <<"B", "o", "b">>)>>,
      <<Label(<<"1">>), Title(<<" ">>), Link(ArtistHref, <<"B", "o", "b">>)>> }

\* Rows whose rank label is a digit outside ASCII: Arabic-Indic three,
\* circled one
ForeignRankRows ==
    { <<Label(<<"U+0663">>), Title(<<"S", "3">>), Link(ArtistHref, <<"B", "o", "b">>)>>,
      <<Label(<<"U+2460", "\r">>), Title(<<"S", "1">>),
        Link(ArtistHref, <<"B", "o", "b">>)>> }

RowSamples ==
    ArtistRows \cup StatRows \cup UntitledRows \cup ForeignRankRows \cup RowSet

InitRow ==
    /\ pc = "row"
    /\ \E row \in RowSamples :
           page = [http |-> "ok", rows |-> <<row>>, meta_description |-> <<>>,
                   texts |-> <<>>]
    /\ config \in [include_images : BOOLEAN, max_chart_entries : {0},
                   fallback_to_default : {TRUE}]
    /\ chart_name = <<>>
    /\ result = NoResult
    /\ warnings = <<>>
    /\ requests = <<>>
    /\ entry_args = NoArgs
    /\ artist_text = <<>>
    /\ NoDownload
    /\ NoRunSpider

\* The row under extraction
TheRow == page.rows[1]

\* spider._extract_artist(row, title, is_album_chart), title being the title
\* of the row
SpiderExtractArtist ==
    /\ pc = "row"
    /\ \E is_album_chart \in BOOLEAN :
           /\ result' = Value(spider_extract_artist(TheRow, _extract_title(TheRow),
                                                    is_album_chart))
           /\ pc' = IF is_album_chart THEN "artist_album" ELSE "artist_single"
    /\ UNCHANGED <<config, chart_name, page, warnings, requests, entry_args,
                   artist_text, retry_vars, runner_vars>>

\* provider._extract_artist(row, song_title)
ProviderExtractArtist ==
    /\ pc = "row"
    /\ result' = Value(provider_extract_artist(TheRow, provider_title(TheRow)))
    /\ pc' = "artist_provider"
    /\ UNCHANGED <<config, chart_name, page, warnings, requests, entry_args,
                   artist_text, retry_vars, runner_vars>>

\* spider._parse_single_row(row)
ParseSingleRow ==
    /\ pc = "row"
    /\ result' = _parse_single_row(TheRow, config.include_images)
    /\ pc' = "single_row"
    /\ UNCHANGED <<config, chart_name, page, warnings, requests, entry_args,
                   artist_text, retry_vars, runner_vars>>

\* spider._parse_album_row(row)
ParseAlbumRow ==
    /\ pc = "row"
    /\ result' = _parse_album_row(TheRow, config.include_images)
    /\ pc' = "album_row"
    /\ UNCHANGED <<config, chart_name, page, warnings, requests, entry_args,
                   artist_text, retry_vars, runner_vars>>

\* The body of the loop of provider._parse_entries for the row
ProviderParseRow ==
    /\ pc = "row"
    /\ result' = provider_parse_row(TheRow, config.include_images)
    /\ pc' = "provider_row"
    /\ UNCHANGED <<config, chart_name, page, warnings, requests, entry_args,
                   artist_text, retry_vars, runner_vars>>

NextRow ==
    \/ SpiderExtractArtist
    \/ ProviderExtractArtist
    \/ ParseSingleRow
    \/ ParseAlbumRow
    \/ ProviderParseRow

SpecRow == InitRow /\ [][NextRow]_vars

(***************************************************************************)
(* Properties of the extraction from one row                               *)
(***************************************************************************)
\* The links of the row that name an artist: the target holds "/artist/",
\* the text is not empty and, unless the row is one of an album chart,
\* differs from the title
QualifyingLinks(row, title, is_album_chart) ==
    SelectSeq(row, LAMBDA n :
        /\ n.tag = "a"
        /\ \E i \in 1..Len(n.href) : n.href[i] = "/artist/"
        /\ strip(n.text) # <<>>
        /\ (is_album_chart \/ strip(n.text) # title))

\* The texts of the elements, trimmed, with " & " between them
Ampersanded(elements) ==
    join([i \in 1..Len(elements) |-> strip(elements[i].text)], <<" ", "&", " ">>)

\* C22: when a link of the row names an artist, the artist is the text of
\* all such links in document order joined by " & ", whatever the labels of
\* the row hold; a link whose text is the title counts for a row of an
\* album chart and does not count for a row of a single chart.
C22_ArtistLinksFirst ==
    /\ (pc \in {"artist_single", "artist_provider"}
          /\ QualifyingLinks(TheRow, _extract_title(TheRow), FALSE) # <<>>) =>
           result.value =
               Ampersanded(QualifyingLinks(TheRow, _extract_title(TheRow), FALSE))
    /\ (pc = "artist_album"
          /\ QualifyingLinks(TheRow, _extract_title(TheRow), TRUE) # <<>>) =>
           result.value =
               Ampersanded(QualifyingLinks(TheRow, _extract_title(TheRow), TRUE))

\* C22 witness: a row of an album chart with a link that repeats the title
\* and a second artist link gave both texts joined.
C22_Witness ==
    /\ pc = "artist_album"
    /\ TheRow = <<Label(<<"1">>), Title(RowTitle),
                  Link(ArtistHref, <<"A", "b", "e">>),
                  Link(ArtistHref, <<" ", "B", "o", "b", "\n">>)>>
    /\ result.value = <<"A", "b", "e", " ", "&", " ", "B", "o", "b">>

\* The text of a label with its whitespace normalized
Normalized(text) == strip(collapse_whitespace(text))

\* The labels of the row that survive the filters of the second tier: not a
\* number, not the title, longer than 2 and shorter than 150 characters, not
\* a status marker
SurvivingLabels(row, title) ==
    SelectSeq(row, LAMBDA n :
        /\ n.label
        /\ ~isdigit(Normalized(n.text))
        /\ Normalized(n.text) # title
        /\ Len(Normalized(n.text)) > 2
        /\ Len(Normalized(n.text)) < 150
        /\ upper(Normalized(n.text)) \notin
               {<<"N", "E", "W">>, <<"R", "E", "-", "E", "N", "T", "R", "Y">>})

\* The artist the second tier is to answer with: the first surviving label
\* inside a link, else the first surviving label that holds "&" or ",", is
\* longer than 8 characters or starts with an upper-case letter, else none
SecondTierArtist(row, title) ==
    LET linked == SelectSeq(SurvivingLabels(row, title), LAMBDA n : n.tag = "a")
        likely == SelectSeq(SurvivingLabels(row, title), LAMBDA n :
                      \/ \E i \in 1..Len(n.text) : n.text[i] \in {"&", ","}
                      \/ Len(Normalized(n.text)) > 8
                      \/ isupper(Normalized(n.text)[1]))
    IN  IF linked # <<>> THEN Normalized(linked[1].text)
        ELSE IF likely # <<>> THEN Normalized(likely[1].text)
        ELSE <<>>

\* C23: when no link of the row names an artist, the artist is the first
\* surviving label in document order that stands inside a link, whatever
\* candidates stand before it; without such a label it is the first
\* surviving label that looks like an artist; without any, there is no
\* artist and the row is discarded.
C23_SecondTierChoice ==
    /\ (pc \in {"artist_single", "artist_provider"}
          /\ QualifyingLinks(TheRow, _extract_title(TheRow), FALSE) = <<>>) =>
           result.value = SecondTierArtist(TheRow, _extract_title(TheRow))
    /\ (pc = "artist_album"
          /\ QualifyingLinks(TheRow, _extract_title(TheRow), TRUE) = <<>>) =>
           result.value = SecondTierArtist(TheRow, _extract_title(TheRow))
    /\ (pc \in {"single_row", "provider_row"}
          /\ QualifyingLinks(TheRow, _extract_title(TheRow), FALSE) = <<>>
          /\ SecondTierArtist(TheRow, _extract_title(TheRow)) = <<>>) =>
           result.status = "None"

\* The row entry an operation on one row answered with
RowParsed == pc \in {"single_row", "album_row", "provider_row"} /\ result.status = "ok"

\* The text nodes of the row that hold "<number> week", letters in any case
WeekTexts(row) ==
    SelectSeq(text_nodes(row), LAMBDA t : search_weeks(t, TRUE) # NoMatch)

\* The text of the row, a space between its text nodes
RowText(row) == join(text_nodes(row), <<" ">>)

\* C24: the figures of a row entry are those of the first marker of their
\* kind in the row and have fixed defaults: weeks_on_chart is the number of
\* the first "<number> week(s)" text and 0 without one, last_week the first
\* number labelled LW and 0 without one, peak_position the first number
\* labelled Peak and the rank of the row, which is never 0, without one.
C24_FiguresAndDefaults ==
    RowParsed =>
        /\ result.value.weeks_on_chart =
               (IF WeekTexts(TheRow) = <<>> THEN 0
                ELSE search_weeks(WeekTexts(TheRow)[1], TRUE).value)
        /\ result.value.last_week =
               (IF search_labelled(RowText(TheRow), LW) = NoMatch THEN 0
                ELSE search_labelled(RowText(TheRow), LW).value)
        /\ result.value.peak_position =
               (IF search_labelled(RowText(TheRow), Peak) = NoMatch
                THEN result.value.rank
                ELSE search_labelled(RowText(TheRow), Peak).value)
        /\ search_labelled(RowText(TheRow), Peak) = NoMatch =>
               result.value.peak_position >= 1

(***************************************************************************)
(* The publication date of a page, read by the spider and by the provider  *)
(***************************************************************************)
\* The most paragraphs a page holds before its rows
MaxDateTexts == 2

\* The paragraphs a page may hold
DateTexts ==
    { <<"W", "e", "e", "k", " ", "o", "f", " ", "J", "a", "n", "u", "a", "r", "y", " ", "2", "1", ",", " ", "2", "0", "2", "6">>,
      <<"w", "e", "e", "k", " ", "o", "f", " ", "F", "E", "B", "R", "U", "A", "R", "Y", " ", "2", "9", ",", " ", "2", "0", "2", "4">>,
      <<"W", "e", "e", "k", " ", "o", "f", " ", "F", "e", "b", "r", "u", "a", "r", "y", " ", "3", "0", ",", " ", "2", "0", "2", "6">>,
      <<"W", "e", "e", "k", " ", "o", "f", " ", "S", "m", "a", "r", "c", "h", " ", "3", ",", " ", "2", "0", "2", "6">>,
      <<"W", "e", "e", "k", " ", "o", "f", " ", "1", "/", "1", "0", "/", "2", "0", "2", "6">>,
      <<"W", "e", "e", "k", " ", "o", "f", " ", "1", "3", "/", "1", "/", "2", "0", "2", "6">>,
      <<"W", "e", "e", "k", " ", "o", "f", " ", "2", "/", "2", "9", "/", "2", "0", "2", "5">>,
      <<"w", "e", "e", "k", " ", "o", "f", " ", "1", "/", "1", "0", "/", "2", "0", "2", "6">>,
      <<"C", "h", "a", "r", "t", "s">>,
      <<"W", "e", "e", "k", " ", "o", "f", " ", "t", "h", "e", " ", "y", "e", "a", "r">>,
      <<"W", "e", "e", "k", " ", "o", "f", " ", "M", "a", "r", "c", "h", " ", "5", ",", " ", "0", "0", "0", "0">>,
      <<"I", "s", "s", "u", "e", ":", " ", "W", "e", "e", "k", " ", "o", "f", "\n", " ", "M", "a", "r", "c", "h", " ", " ", "7", ",", " ", " ", "2", "0", "2", "6", " ", "c", "h", "a", "r", "t">>,
      <<"W", "e", "e", "k", " ", "o", "f", " ", "1", "2", " ", "5", ",", " ", "2", "0", "2", "6">>,
      <<"W", "e", "e", "k", " ", "o", "f", " ", "J", "a", "n", "u", "a", "r", "y", "\r", "\n", "2", "1", ",", " ", "2", "0", "2", "6">>,
      <<"W", "e", "e", "k", " ", "o", "f", " ", "F", "U+00E9", "v", "r", "i", "e", "r", " ", "3", ",", " ", "2", "0", "2", "6">> }

\* The meta descriptions a page may have: none, or one that names a week
DateDescriptions ==
    { <<>>, <<"W", "e", "e", "k", " ", "o", "f", " ", "M", "a", "y", " ", "2", ",", " ", "2", "0", "2", "6", ":", " ", "t", "h", "e", " ", "t", "o", "p", " ", "s", "o", "n", "g", "s">> }

\* The pages served, at once or after a 503: the meta description,
\* paragraphs, then no row or one
DatePages ==
    [http : {"ok"}, failures : {<<>>, <<"503">>}, rows : {<<>>, <<row_one>>},
     meta_description : DateDescriptions,
     texts : SeqsUpTo(DateTexts, MaxDateTexts)]

InitDate ==
    /\ pc = "date"
    /\ page \in DatePages
    /\ config \in [include_images : {TRUE}, max_chart_entries : {0},
                   fallback_to_default : {TRUE}]
    /\ chart_name = hot_100
    /\ result = NoResult
    /\ warnings = <<>>
    /\ requests = <<>>
    /\ entry_args = NoArgs
    /\ artist_text = <<>>
    /\ NoDownload
    /\ NoRunSpider

\* spider._parse_date(response)
SpiderParseDate ==
    /\ pc = "date"
    /\ result' = spider_parse_date(Response(chart_name))
    /\ pc' = "date_spider"
    /\ UNCHANGED <<config, chart_name, page, warnings, requests, entry_args,
                   artist_text, retry_vars, runner_vars>>

\* provider._parse_date(soup)
ProviderParseDate ==
    /\ pc = "date"
    /\ result' = provider_parse_date(page)
    /\ pc' = "date_provider"
    /\ UNCHANGED <<config, chart_name, page, warnings, requests, entry_args,
                   artist_text, retry_vars, runner_vars>>

\* spider.parse(response): the item yielded or the exception of the callback
SpiderParsePage ==
    /\ pc = "date"
    /\ result' = spider_parse(Response(chart_name), chart_name, config)
    /\ pc' = "page_spider"
    /\ UNCHANGED <<config, chart_name, page, warnings, requests, entry_args,
                   artist_text, retry_vars, runner_vars>>

\* provider.get_latest(chart_name), the server answering with page
ProviderLatestPage ==
    /\ pc = "date"
    /\ \E r \in {get_latest(chart_name, config, page)} :
           /\ result' = r.result
           /\ warnings' = warnings \o r.warnings
           /\ requests' = requests \o r.requests
           /\ slept' = slept \o r.slept
    /\ pc' = "page_provider"
    /\ UNCHANGED <<config, chart_name, page, entry_args,
                   artist_text, downloading, answered, runner_vars>>

NextDate ==
    SpiderParseDate \/ ProviderParseDate \/ SpiderParsePage \/ ProviderLatestPage

SpecDate == InitDate /\ [][NextDate]_vars

\* The date three values name, or the current date when they name none
DateOrToday(year, month, day) ==
    IF date(year, month, day).status = "ok" THEN date(year, month, day).value
    ELSE Today

\* The date the first phrases of a text stand for: the named phrase when its
\* month is a month, else the numeric phrase, else the current date
PhraseDate(text) ==
    LET named == first_named(text)
        numbers == first_numbers(text)
    IN  IF named # NoMatch /\ lower(named.month_name) \in DOMAIN month_map
        THEN DateOrToday(DecimalValue(named.year),
                         month_map[lower(named.month_name)],
                         DecimalValue(named.day))
        ELSE IF numbers # NoMatch
        THEN DateOrToday(DecimalValue(numbers.year), DecimalValue(numbers.month),
                         DecimalValue(numbers.day))
        ELSE Today

\* C25: parsing the date of a page always gives a date, the one of the first
\* named phrase with a known month, else the one of the first numeric phrase,
\* else (no phrase, unknown month, values that form no calendar date) the
\* current date, and the page is never failed by it.
C25_DateNeverFails ==
    /\ pc \in {"date_spider", "date_provider"} =>
           /\ result.status = "ok"
           /\ result.value = PhraseDate(page_markup(page))
    /\ pc \in {"page_spider", "page_provider"} => result.status = "ok"

(***************************************************************************)
(* The records a row gives                                                 *)
(***************************************************************************)
\* The song or album fields of the record the row gave
Emitted ==
    IF pc = "provider_row"
    THEN [rank |-> result.value.rank, title |-> result.value.song.title,
          artist |-> result.value.song.artist, artists |-> result.value.song.artists]
    ELSE [rank |-> result.value.rank, title |-> result.value.title,
          artist |-> result.value.artist, artists |-> result.value.artists]

\* C26: every record a row gives is well-formed: its rank is at least 1, its
\* title and its primary artist are not empty, and its artists list is not
\* empty and starts with the primary artist.
C26_RecordsWellFormed ==
    RowParsed =>
        /\ Emitted.rank >= 1
        /\ Emitted.title # <<>>
        /\ Emitted.artist # <<>>
        /\ Emitted.artists # <<>>
        /\ Emitted.artists[1] = Emitted.artist

(***************************************************************************)
(* Which rows a scan with a maximum keeps                                  *)
(***************************************************************************)
\* The entries of the rows of the page that pass extraction on their own, in
\* page order
AcceptedInPageOrder ==
    LET parsed == [i \in 1..Len(page.rows) |-> ParsedRow(page.rows[i])]
        passed == SelectSeq(parsed, LAMBDA e : e.status = "ok")
    IN  [i \in 1..Len(passed) |-> passed[i].value]

\* The first k of them
FirstAccepted(k) ==
    IF Len(AcceptedInPageOrder) <= k THEN AcceptedInPageOrder
    ELSE SubSeq(AcceptedInPageOrder, 1, k)

\* How often an entry stands in a list
Occurrences(entries, e) == Cardinality({i \in 1..Len(entries) : entries[i] = e})

\* C27: with the maximum set to k >= 1 a scan returns exactly the first k
\* rows of the page, in page order, that pass extraction: rejected rows do
\* not count, and no later row takes the place of one already accepted.
C27_FirstAcceptedRowsKept ==
    (pc \in {"parsed", "entries"} /\ result.status = "ok"
         /\ config.max_chart_entries >= 1) =>
        /\ Len(ScannedEntries) = Len(FirstAccepted(config.max_chart_entries))
        /\ \A i \in 1..Len(ScannedEntries) :
               Occurrences(ScannedEntries, ScannedEntries[i]) =
                   Occurrences(FirstAccepted(config.max_chart_entries),
                               ScannedEntries[i])

\* C27 witness: with a maximum of 1 the single scan of a page with a rejected
\* row, the row of rank 3 and the row of rank 1 kept the row of rank 3 alone.
C27_Witness ==
    /\ pc = "parsed"
    /\ chart_name = hot_100
    /\ config.max_chart_entries = 1
    /\ page.rows = <<row_new, row_three, row_one>>
    /\ result.status = "ok"
    /\ Ranks(result.value.entries) = <<3>>

(***************************************************************************)
(* The row parser of the provider against the one of the spider            *)
(***************************************************************************)
\* The fields both row parsers fill, of a spider dict
SpiderFields(entry) ==
    [rank |-> entry.rank, title |-> entry.title, artist |-> entry.artist,
     artists |-> entry.artists, weeks_on_chart |-> entry.weeks_on_chart,
     last_week |-> entry.last_week, peak_position |-> entry.peak_position]

\* The same fields of a ChartEntry of the provider
ProviderFields(entry) ==
    [rank |-> entry.rank, title |-> entry.song.title, artist |-> entry.song.artist,
     artists |-> entry.song.artists, weeks_on_chart |-> entry.weeks_on_chart,
     last_week |-> entry.last_week, peak_position |-> entry.peak_position]

\* C28: for every row the row parser of the provider and _parse_single_row of
\* the spider either both reject the row or both accept it with the same
\* rank, title, primary artist, artists, weeks on chart, last week and peak.
C28_ProviderAgreesWithSpider ==
    pc = "provider_row" =>
        LET spider == _parse_single_row(TheRow, config.include_images)
        IN  IF result.status = "ok"
            THEN /\ spider.status = "ok"
                 /\ ProviderFields(result.value) = SpiderFields(spider.value)
            ELSE spider.status # "ok"

(***************************************************************************)
(* Capabilities declared against the answers of the operations             *)
(***************************************************************************)
\* The operation that ran: the capabilities of its provider and the
\* capability that stands for it
Declared ==
    IF pc \in {"latest", "chart", "list"} THEN billboard_capabilities
    ELSE spotify_capabilities
Needed ==
    IF pc \in {"latest", "spotify_latest"} THEN LATEST
    ELSE IF pc \in {"chart", "spotify_chart"} THEN HISTORICAL
    ELSE LIST_CHARTS

\* C29: for both providers an operation whose capability is declared never
\* answers with NotImplementedError, and one whose capability is not
\* declared always does.
C29_CapabilitiesMatchBehaviour ==
    pc \in {"latest", "chart", "list",
            "spotify_latest", "spotify_chart", "spotify_list"} =>
        (supports(Declared, Needed) <=> result.status # "NotImplementedError")

(***************************************************************************)
(* The resolution applied to its own result                                *)
(***************************************************************************)
\* C30: the resolution is closed and idempotent: a value it returns is a key
\* of CHART_URLS, so that the URL is the one of that key and not a default,
\* and resolving the value again returns it unchanged without a warning.
C30_ResolutionClosedIdempotent ==
    /\ (pc = "normalized" /\ result.status = "ok") =>
           /\ result.value \in DOMAIN CHART_URLS
           /\ _get_chart_url(chart_name, config).value =
                  BASE_URL \o CHART_URLS[result.value]
    /\ pc = "renormalized" => result = Returned(chart_name, <<>>)

\* C30 witness: a name that matched nothing fell back to "hot-100" with a
\* warning, and resolving "hot-100" returned it with no further warning.
C30_Witness ==
    /\ pc = "renormalized"
    /\ chart_name = hot_100
    /\ result = Returned(hot_100, <<>>)
    /\ Len(warnings) = 1
    /\ warnings[1].chart = <<"T", "o", "p", " ", "4", "0">>

====
